---- MODULE Spec2Model ----
(***************************************************************************)
(* gitlab-search: the boolean query language (tokenizer, recursive-descent *)
(* parser, expression evaluator) and the blob search executor built on it. *)
(*                                                                         *)
(* Each component is checked under its own specification:                  *)
(*   EvalSpec   expression.py  evaluate / set_universe                     *)
(*   ParseSpec  parser.py      ExpressionParser                            *)
(*   TokSpec    parser.py      tokenize_args                               *)
(*   BlobSpec   executor.py    execute_blob_search                         *)
(*   ScopeSpec  executor.py    execute_scope_search                        *)
(*   SearchSpec executor.py    execute_search, one scope                   *)
(*   CmdSpec    expression.py  ParsedCommand.get_all_queries               *)
(*   ResolveSpec executor.py   resolve_projects                            *)
(*   ClientSpec gitlab.py      GitLabClient._request / _paginated_request  *)
(*   ExclSpec   executor.py    matches_exclusion                           *)
(*   PageSpec   gitlab.py      one list or search operation, page by page  *)
(*   MapSpec    executor.py    the per-term identity -> payload mapping    *)
(*   GatherSpec executor.py    execute_blob_search, completion order kept  *)
(* The variables of the other components stay at their idle values.        *)
(***************************************************************************)
EXTENDS Integers, Sequences, FiniteSets, TLC

VARIABLES
    expr,        \* evaluator: the expression tree under evaluation
    results,     \* evaluator: dict query string -> set of result ids
    assigned,    \* evaluator: set_universe has been run on expr
    outcome,     \* evaluator: what evaluate() did
    tokens,      \* parser: ExpressionParser.tokens
    parsed,      \* parser: what parse() did
    args,        \* tokenizer: the arguments consumed so far, args[:i], grouped
                 \* by the loop iteration that read them: <<flag>> or <<flag, value>>
    result,      \* tokenizer: the TokenizeResult under construction
    pending_not, \* tokenizer: -not / ! was just seen
    tstate,      \* tokenizer: "running", "done" (returned) or "error" (ParseError)
    expression,  \* blob search: the expression tree (its Not nodes are mutated)
    all_queries, \* blob search: the distinct query strings, in order
    projects,    \* blob search: the resolved projects, by id
    responses,   \* blob search: per (query, project) request, what came back
    sent,        \* blob search: the search requests, in the order of their tasks
    search,      \* blob search: what execute_blob_search did
    scope,       \* search: the scope execute_search is at
    search_criteria,    \* search: the filename, extension and path options
    output,      \* search: what execute_search handed to the printer
    command,     \* parsed command: the ParsedCommand
    query_list,  \* parsed command: what get_all_queries returned
    scope_cmd,   \* scope resolution: the scope fields of the ParsedCommand
    resolved,    \* scope resolution: the list `projects`, by id
    seen_ids,    \* scope resolution: the set seen_ids
    fetched,     \* scope resolution: what each source returned, in order
    rstate,      \* scope resolution: the next step, "done" or "raised"; then
                 \* execute_search: "searching", or "returned" without a search
    request_error, \* scope resolution: the request whose error was raised
    requested,   \* scope resolution: the requests sent so far, <<kind, id>>
    max_requests, \* client: config.max_requests
    sem_value,   \* client: the counter of self.semaphore
    waiters,     \* client: the tasks blocked in self.semaphore, first come first
    tasks,       \* client: per task, where it stands and the page it is at
    exclusion_call, \* exclusion test: the arguments of matches_exclusion
    exclusion,   \* exclusion test: what matches_exclusion returned
    operation,   \* paging: the client operation called and the server's pages
    paging,      \* paging: the request the operation is at, what it has so far
    mapped_scope, \* mapping: the scope whose results are mapped
    raw_results, \* mapping: what the requests of one term returned, per project
    term_mapping, \* mapping: query_results[query] once built
    answers,     \* gather: what the server answers to each (query, project)
    arrived      \* gather: the requests in the order they completed

evalVars == <<expr, results, assigned, outcome>>
parseVars == <<tokens, parsed>>
tokVars == <<args, result, pending_not, tstate>>
blobVars == <<expression, all_queries, projects, responses, sent, search, scope,
             search_criteria, output>>
cmdVars == <<command, query_list>>
vars == <<expr, results, assigned, outcome, tokens, parsed,
          args, result, pending_not, tstate,
          expression, all_queries, projects, responses, sent, search, scope,
          search_criteria, output,
          command, query_list,
          scope_cmd, resolved, seen_ids, fetched, rstate, request_error, requested,
          max_requests, sem_value, waiters, tasks,
          exclusion_call, exclusion,
          operation, paging,
          mapped_scope, raw_results, term_mapping,
          answers, arrived>>
resolveVars == <<scope_cmd, resolved, seen_ids, fetched, rstate, request_error,
                requested>>
clientVars == <<max_requests, sem_value, waiters, tasks>>
exclVars == <<exclusion_call, exclusion>>
pageVars == <<operation, paging>>
mapVars == <<mapped_scope, raw_results, term_mapping>>
gatherVars == <<answers, arrived>>

\* what the actions of one component leave alone
exceptEval ==
    <<parseVars, tokVars, blobVars, cmdVars, resolveVars, clientVars,
      exclVars, pageVars, mapVars, gatherVars>>
exceptParse ==
    <<evalVars, tokVars, blobVars, cmdVars, resolveVars, clientVars,
      exclVars, pageVars, mapVars, gatherVars>>
exceptTok ==
    <<evalVars, parseVars, blobVars, cmdVars, resolveVars, clientVars,
      exclVars, pageVars, mapVars, gatherVars>>
exceptBlob ==
    <<evalVars, parseVars, tokVars, cmdVars, resolveVars, clientVars,
      exclVars, pageVars, mapVars, gatherVars>>
exceptCmd ==
    <<evalVars, parseVars, tokVars, blobVars, resolveVars, clientVars,
      exclVars, pageVars, mapVars, gatherVars>>
exceptResolve ==
    <<evalVars, parseVars, tokVars, blobVars, cmdVars, clientVars, exclVars,
      pageVars, mapVars, gatherVars>>
exceptClient ==
    <<evalVars, parseVars, tokVars, blobVars, cmdVars, resolveVars, exclVars,
      pageVars, mapVars, gatherVars>>
exceptExcl ==
    <<evalVars, parseVars, tokVars, blobVars, cmdVars, resolveVars,
      clientVars, pageVars, mapVars, gatherVars>>
exceptPage ==
    <<evalVars, parseVars, tokVars, blobVars, cmdVars, resolveVars,
      clientVars, exclVars, mapVars, gatherVars>>
exceptMap ==
    <<evalVars, parseVars, tokVars, blobVars, cmdVars, resolveVars,
      clientVars, exclVars, pageVars, gatherVars>>
exceptGather ==
    <<evalVars, parseVars, tokVars, blobVars, cmdVars, resolveVars,
      clientVars, exclVars, pageVars, mapVars>>

(***************************************************************************)
(* Bounds                                                                  *)
(***************************************************************************)
\* operator nodes (And, Or, Not) in a generated expression tree
MaxOps == 2
\* result ids 1..MaxId
MaxId == 2
\* tokens in a generated stream, the closing EOF not counted
MaxTokens == 6
\* iterations of the argument loop of tokenize_args
MaxArgs == 4
\* operator nodes in the expression of a search
MaxSearchOps == 1
\* results one request returns
MaxHits == 1
\* results one request returns when its mapping alone is built
MaxPayloads == 2
\* projects on the server
MaxProjects == 2
\* concurrent tasks that send requests through one client
MaxTasks == 3
\* pages one paginated listing has
MaxPages == 2
\* entries in each of the three exclusion lists
MaxPatterns == 2
\* largest max_requests configured
MaxCeiling == 2

Terms == {"a", "b"}
Ids == 1..MaxId

(***************************************************************************)
(* expression.py: the AST                                                  *)
(***************************************************************************)
QueryNode(q) == [type |-> "Query", query |-> q]
AndNode(l, r) == [type |-> "And", left |-> l, right |-> r]
OrNode(l, r) == [type |-> "Or", left |-> l, right |-> r]
\* universe defaults to the empty set (field(default_factory=set))
NotNode(c, u) == [type |-> "Not", child |-> c, universe |-> u]

\* what a call did: returned a set, or raised ValueError
Returned(s) == [state |-> "returned", value |-> s]
Raised == [state |-> "raised", value |-> {}]
Pending == [state |-> "pending", value |-> {}]

RECURSIVE evaluate(_, _)

QueryNode_evaluate(node, res) ==
    Returned(IF node.query \in DOMAIN res THEN res[node.query] ELSE {})

AndNode_evaluate(node, res) ==
    LET l == evaluate(node.left, res)
    IN  IF l.state = "raised" THEN Raised
        ELSE LET r == evaluate(node.right, res)
             IN  IF r.state = "raised" THEN Raised
                 ELSE Returned(l.value \cap r.value)

OrNode_evaluate_Intersect(node, res) ==
    LET l == evaluate(node.left, res)
    IN  IF l.state = "raised" THEN Raised
        ELSE LET r == evaluate(node.right, res)
             IN  IF r.state = "raised" THEN Raised
                 ELSE Returned(l.value \cap r.value)

OrNode_evaluate(node, res) ==
    LET l == evaluate(node.left, res)
    IN  IF l.state = "raised" THEN Raised
        ELSE LET r == evaluate(node.right, res)
             IN  IF r.state = "raised" THEN Raised
                 ELSE Returned(l.value \cup r.value)

\* variant of NotNode.evaluate: no test of the universe
NotNode_evaluate_NoTest(node, res) ==
    LET c == evaluate(node.child, res)
    IN  IF c.state = "raised" THEN Raised
        ELSE Returned(node.universe \ c.value)

NotNode_evaluate(node, res) ==
    IF node.universe = {} THEN Raised
    ELSE LET c == evaluate(node.child, res)
         IN  IF c.state = "raised" THEN Raised
             ELSE Returned(node.universe \ c.value)

evaluate(node, res) ==
    CASE node.type = "Query" -> QueryNode_evaluate(node, res)
      [] node.type = "And" -> AndNode_evaluate(node, res)
      [] node.type = "Or" -> OrNode_evaluate(node, res)
      [] node.type = "Not" -> NotNode_evaluate(node, res)

\* variant of set_universe: stops at the first Not node of a branch
RECURSIVE set_universe_Outermost(_, _)
set_universe_Outermost(node, universe) ==
    CASE node.type = "Not" -> NotNode(node.child, universe)
      [] node.type \in {"And", "Or"} ->
            [node EXCEPT !.left = set_universe_Outermost(node.left, universe),
                         !.right = set_universe_Outermost(node.right, universe)]
      [] OTHER -> node

\* variant of set_universe: a Not node that has a universe keeps it
RECURSIVE set_universe_KeepAssigned(_, _)
set_universe_KeepAssigned(node, universe) ==
    CASE node.type = "Not" ->
            NotNode(set_universe_KeepAssigned(node.child, universe),
                    IF node.universe = {} THEN universe ELSE node.universe)
      [] node.type \in {"And", "Or"} ->
            [node EXCEPT !.left = set_universe_KeepAssigned(node.left, universe),
                         !.right = set_universe_KeepAssigned(node.right, universe)]
      [] OTHER -> node

RECURSIVE set_universe(_, _)
set_universe(node, universe) ==
    CASE node.type = "Not" ->
            NotNode(set_universe(node.child, universe), universe)
      [] node.type \in {"And", "Or"} ->
            [node EXCEPT !.left = set_universe(node.left, universe),
                         !.right = set_universe(node.right, universe)]
      [] OTHER -> node

RECURSIVE get_queries(_)
get_queries(node) ==
    CASE node.type = "Query" -> <<node.query>>
      [] node.type \in {"And", "Or"} -> get_queries(node.left) \o get_queries(node.right)
      [] node.type = "Not" -> get_queries(node.child)

\* variant of the loop of get_all_queries: keeps every occurrence
unique_KeepAll(queries, acc) == acc \o queries

\* the loop of get_all_queries: drop duplicates, keep the first occurrences
RECURSIVE unique(_, _)
unique(queries, acc) ==
    IF queries = << >> THEN acc
    ELSE unique(Tail(queries),
                IF \E k \in 1..Len(acc) : acc[k] = Head(queries)
                THEN acc ELSE Append(acc, Head(queries)))

\* ParsedCommand.query_expression is None when there is no expression
NoneNode == [type |-> "None"]

get_all_queries(query_expression) ==
    IF query_expression = NoneNode THEN << >>
    ELSE unique(get_queries(query_expression), << >>)

\* ParsedCommand, by the field get_all_queries reads
ParsedCommand(query_expression) == [query_expression |-> query_expression]

QueriesPending == [state |-> "pending", value |-> << >>]
QueriesReturned(list) == [state |-> "returned", value |-> list]

(***************************************************************************)
(* Inputs of the evaluator: trees as the parser builds them (no universe   *)
(* assigned yet) and result dicts that may lack a term.                    *)
(***************************************************************************)
RECURSIVE TreesWithOps(_)
TreesWithOps(n) ==
    IF n = 0 THEN {QueryNode(q) : q \in Terms}
    ELSE {NotNode(c, {}) : c \in TreesWithOps(n - 1)}
         \cup UNION {UNION {{AndNode(l, r), OrNode(l, r)} :
                              l \in TreesWithOps(i), r \in TreesWithOps(n - 1 - i)} :
                     i \in 0..(n - 1)}

ExprTrees == UNION {TreesWithOps(n) : n \in 0..MaxOps}

ResultDicts == UNION {[D -> SUBSET Ids] : D \in SUBSET Terms}

RECURSIVE HasNot(_)
HasNot(node) ==
    CASE node.type = "Not" -> TRUE
      [] node.type \in {"And", "Or"} -> HasNot(node.left) \/ HasNot(node.right)
      [] OTHER -> FALSE

(***************************************************************************)
(* parser.py: tokens and the recursive-descent ExpressionParser            *)
(*   expr    := term (OR term)*                                            *)
(*   term    := factor (AND? factor)*                                      *)
(*   factor  := NOT? primary                                               *)
(*   primary := QUERY | LPAREN expr RPAREN                                 *)
(* The parser's position self.pos is threaded through the operators: each  *)
(* returns the node it built and the position it stopped at, or the        *)
(* position at which it raised ParseError.                                 *)
(***************************************************************************)
None == "<None>"

Token(type, value) == [type |-> type, value |-> value]
EOF == Token("EOF", None)

ParseOk(node, pos) == [ok |-> TRUE, node |-> node, pos |-> pos]
ParseError(pos) == [ok |-> FALSE, pos |-> pos]

\* variant of _has_query_tokens: any token before the EOF counts
has_query_tokens_AnyToken(toks) == \E k \in 1..Len(toks) : toks[k].type # "EOF"

has_query_tokens(toks) == \E k \in 1..Len(toks) : toks[k].type = "QUERY"

\* pos counts from 0 as in the code; sequences count from 1
current(toks, pos) == IF pos >= Len(toks) THEN EOF ELSE toks[pos + 1]

previous(toks, pos) == toks[pos]

check(toks, pos, type) == current(toks, pos).type = type

RECURSIVE parse_expr(_, _)
RECURSIVE parse_term(_, _)

\* mutant: a group holds a term only, so an OR inside parentheses is refused
parse_primary_TermInGroup(toks, pos) ==
    IF check(toks, pos, "LPAREN")
    THEN LET e == parse_term(toks, pos + 1)
         IN  IF ~e.ok THEN e
             ELSE IF check(toks, e.pos, "RPAREN")
                  THEN ParseOk(e.node, e.pos + 1)
                  ELSE ParseError(e.pos)
    ELSE IF check(toks, pos, "QUERY")
         THEN LET value == previous(toks, pos + 1).value
              IN  IF value = None THEN ParseError(pos + 1)
                  ELSE ParseOk(QueryNode(value), pos + 1)
         ELSE ParseError(pos)

parse_primary(toks, pos) ==
    IF check(toks, pos, "LPAREN")
    THEN LET e == parse_expr(toks, pos + 1)
         IN  IF ~e.ok THEN e
             ELSE IF check(toks, e.pos, "RPAREN")
                  THEN ParseOk(e.node, e.pos + 1)
                  ELSE ParseError(e.pos)
    ELSE IF check(toks, pos, "QUERY")
         THEN LET value == previous(toks, pos + 1).value
              IN  IF value = None THEN ParseError(pos + 1)
                  ELSE ParseOk(QueryNode(value), pos + 1)
         ELSE ParseError(pos)

\* mutant: NOT negates the whole AND term that follows it
parse_factor_NotOverTerm(toks, pos) ==
    IF check(toks, pos, "NOT")
    THEN LET p == parse_term(toks, pos + 1)
         IN  IF p.ok THEN ParseOk(NotNode(p.node, {}), p.pos) ELSE p
    ELSE parse_primary(toks, pos)

\* variant of _parse_factor: NOT is consumed and no NotNode is built
parse_factor_SkipNot(toks, pos) == parse_primary(toks, IF check(toks, pos, "NOT") THEN pos + 1 ELSE pos)

parse_factor(toks, pos) ==
    IF check(toks, pos, "NOT")
    THEN LET p == parse_primary(toks, pos + 1)
         IN  IF p.ok THEN ParseOk(NotNode(p.node, {}), p.pos) ELSE p
    ELSE parse_primary(toks, pos)

\* mutant: the right operand of AND is a whole OR expression
parse_term_loop_OrInsideAnd(toks, left, pos) ==
    IF \/ check(toks, pos, "AND")
       \/ check(toks, pos, "QUERY")
       \/ check(toks, pos, "NOT")
       \/ check(toks, pos, "LPAREN")
    THEN LET start == IF check(toks, pos, "AND") THEN pos + 1 ELSE pos
             right == parse_expr(toks, start)
         IN  IF right.ok THEN ParseOk(AndNode(left, right.node), right.pos)
             ELSE right
    ELSE ParseOk(left, pos)

\* the while loop of _parse_term, entered with left already parsed
RECURSIVE parse_term_loop(_, _, _)
parse_term_loop(toks, left, pos) ==
    IF \/ check(toks, pos, "AND")
       \/ check(toks, pos, "QUERY")
       \/ check(toks, pos, "NOT")
       \/ check(toks, pos, "LPAREN")
    THEN LET start == IF check(toks, pos, "AND") THEN pos + 1 ELSE pos
             right == parse_factor(toks, start)
         IN  IF right.ok
             THEN parse_term_loop(toks, AndNode(left, right.node), right.pos)
             ELSE right
    ELSE ParseOk(left, pos)

parse_term(toks, pos) ==
    LET left == parse_factor(toks, pos)
    IN  IF left.ok THEN parse_term_loop(toks, left.node, left.pos) ELSE left

\* mutant: OR nests to the right
parse_expr_loop_RightAssoc(toks, left, pos) ==
    IF check(toks, pos, "OR")
    THEN LET right == parse_expr(toks, pos + 1)
         IN  IF right.ok THEN ParseOk(OrNode(left, right.node), right.pos)
             ELSE right
    ELSE ParseOk(left, pos)

\* the while loop of _parse_expr, entered with left already parsed
RECURSIVE parse_expr_loop(_, _, _)
parse_expr_loop(toks, left, pos) ==
    IF check(toks, pos, "OR")
    THEN LET right == parse_term(toks, pos + 1)
         IN  IF right.ok
             THEN parse_expr_loop(toks, OrNode(left, right.node), right.pos)
             ELSE right
    ELSE ParseOk(left, pos)

parse_expr(toks, pos) ==
    LET left == parse_term(toks, pos)
    IN  IF left.ok THEN parse_expr_loop(toks, left.node, left.pos) ELSE left

\* ExpressionParser(tokens).parse(): a tree, None, or ParseError
NoExpression == [state |-> "none"]
ParsedTree(node, pos) == [state |-> "tree", node |-> node, pos |-> pos]
ParseFailed(pos) == [state |-> "error", pos |-> pos]
NotParsed == [state |-> "pending"]

\* variant of parse: does not look at what follows the expression
parse_IgnoreRest(toks) ==
    IF ~has_query_tokens(toks) THEN NoExpression
    ELSE LET e == parse_expr(toks, 0)
         IN  IF ~e.ok THEN ParseFailed(e.pos)
             ELSE ParsedTree(e.node, e.pos)

parse(toks) ==
    IF ~has_query_tokens(toks) THEN NoExpression
    ELSE LET e == parse_expr(toks, 0)
         IN  IF ~e.ok THEN ParseFailed(e.pos)
             ELSE IF ~check(toks, e.pos, "EOF") THEN ParseFailed(e.pos)
             ELSE ParsedTree(e.node, e.pos)

(***************************************************************************)
(* parser.py: tokenize_args.  One iteration of its while loop reads the    *)
(* flag args[i] and, for a flag that takes a value, args[i + 1].  rest is  *)
(* what follows the flag: <<>> when the flag is the last argument, else    *)
(* <<v>>.  Strings are atomic here, so str.split(",") is the table         *)
(* CommaSplit over the argument values the model draws.                    *)
(***************************************************************************)
ArgValues == {"x", "y,z"}

CommaSplit(v) == IF v = "y,z" THEN <<"y", "z">> ELSE <<v>>

\* int(v): the value, or ValueError (here None) for a non-numeral
Numerals == {"1", "10"}
ToInt(v) == CASE v = "1" -> 1 [] v = "10" -> 10 [] OTHER -> None

TokenizeResult ==
    [tokens |-> << >>, groups |-> << >>, projects |-> << >>,
     exclude_projects |-> << >>, exclude_groups |-> << >>,
     user |-> None, my_projects |-> FALSE, scope |-> <<"blobs">>,
     filename |-> None, extension |-> None, path |-> None,
     archived |-> "include", api_url |-> None, ignore_cert |-> FALSE,
     max_requests |-> None, token |-> None, color |-> "auto",
     debug |-> FALSE, setup |-> FALSE, config_dir |-> "."]

\* what one iteration leaves: the result, pending_not, and whether it raised
Iter(r, pn) == [result |-> r, pending_not |-> pn, error |-> FALSE]
IterError(r, pn) == [result |-> r, pending_not |-> pn, error |-> TRUE]

ValueFlags ==
    {"-q", "-g", "--groups", "-p", "--projects", "-u", "--user", "-s", "--scope",
     "-f", "--filename", "-e", "--extension", "-P", "--path", "--archived",
     "--api-url", "--max-requests", "--token", "--color", "--dir"}

\* result.tokens and result.tokens[-1].type == TokenType.NOT
LastIsNot(r) == Len(r.tokens) > 0 /\ r.tokens[Len(r.tokens)].type = "NOT"
\* variant of pop: removes the first token instead of the last
Pop_First(seq) == Tail(seq)

Pop(seq) == SubSeq(seq, 1, Len(seq) - 1)

\* variant of the -g / -p branches: looks at the last token only, not at
\* pending_not
tokenize_selector_LastToken(r, pn, v, incl, excl) ==
    IF LastIsNot(r)
    THEN Iter([r EXCEPT !.tokens = Pop(@), ![excl] = @ \o CommaSplit(v)], FALSE)
    ELSE Iter([r EXCEPT ![incl] = @ \o CommaSplit(v)], FALSE)

\* mutant: an exclusion leaves its NOT token in the stream
tokenize_selector_KeepNot(r, pn, v, incl, excl) ==
    IF pn /\ LastIsNot(r)
    THEN Iter([r EXCEPT ![excl] = @ \o CommaSplit(v)], FALSE)
    ELSE Iter([r EXCEPT ![incl] = @ \o CommaSplit(v)], FALSE)

\* the -g / -p branches: incl is groups or projects, excl its exclusion list
tokenize_selector(r, pn, v, incl, excl) ==
    IF pn /\ LastIsNot(r)
    THEN Iter([r EXCEPT !.tokens = Pop(@), ![excl] = @ \o CommaSplit(v)], FALSE)
    ELSE Iter([r EXCEPT ![incl] = @ \o CommaSplit(v)], FALSE)

\* variant of the last branches: the argument is skipped
tokenize_unknown_Skip(r, pn, arg) == Iter(r, pn)

\* -V, --version, -h, --help, an unknown option, a positional: ParseError
tokenize_unknown(r, pn, arg) == IterError(r, pn)

tokenize_arg(r, pn, arg, rest) ==
    LET v == rest[1]
    IN
    IF arg \in ValueFlags /\ rest = << >> THEN IterError(r, pn)
    ELSE CASE arg = "-q" ->
                Iter([r EXCEPT !.tokens = Append(@, Token("QUERY", v))], FALSE)
           [] arg = "-a" ->
                Iter([r EXCEPT !.tokens = Append(@, Token("AND", None))], FALSE)
           [] arg = "-o" ->
                Iter([r EXCEPT !.tokens = Append(@, Token("OR", None))], FALSE)
           [] arg \in {"-not", "!"} ->
                Iter([r EXCEPT !.tokens = Append(@, Token("NOT", None))], TRUE)
           [] arg = "(" ->
                Iter([r EXCEPT !.tokens = Append(@, Token("LPAREN", None))], FALSE)
           [] arg = ")" ->
                Iter([r EXCEPT !.tokens = Append(@, Token("RPAREN", None))], FALSE)
           [] arg \in {"-g", "--groups"} ->
                tokenize_selector(r, pn, v, "groups", "exclude_groups")
           [] arg \in {"-p", "--projects"} ->
                tokenize_selector(r, pn, v, "projects", "exclude_projects")
           [] arg \in {"-u", "--user"} -> Iter([r EXCEPT !.user = v], FALSE)
           [] arg = "--my-projects" -> Iter([r EXCEPT !.my_projects = TRUE], FALSE)
           [] arg \in {"-s", "--scope"} ->
                Iter([r EXCEPT !.scope = CommaSplit(v)], FALSE)
           [] arg \in {"-f", "--filename"} -> Iter([r EXCEPT !.filename = v], FALSE)
           [] arg \in {"-e", "--extension"} -> Iter([r EXCEPT !.extension = v], FALSE)
           [] arg \in {"-P", "--path"} -> Iter([r EXCEPT !.path = v], FALSE)
           [] arg = "--archived" ->
                IF v \notin {"include", "only", "exclude"} THEN IterError(r, pn)
                ELSE Iter([r EXCEPT !.archived = v], FALSE)
           [] arg = "--api-url" -> Iter([r EXCEPT !.api_url = v], FALSE)
           [] arg = "--ignore-cert" -> Iter([r EXCEPT !.ignore_cert = TRUE], FALSE)
           [] arg = "--max-requests" ->
                IF v \notin Numerals THEN IterError(r, pn)
                ELSE Iter([r EXCEPT !.max_requests = ToInt(v)], FALSE)
           [] arg = "--token" -> Iter([r EXCEPT !.token = v], FALSE)
           [] arg = "--color" ->
                IF v \notin {"auto", "always", "never"} THEN IterError(r, pn)
                ELSE Iter([r EXCEPT !.color = v], FALSE)
           [] arg = "--debug" -> Iter([r EXCEPT !.debug = TRUE], FALSE)
           [] arg = "--setup" -> Iter([r EXCEPT !.setup = TRUE], FALSE)
           [] arg = "--dir" -> Iter([r EXCEPT !.config_dir = v], FALSE)
           [] OTHER -> tokenize_unknown(r, pn, arg)

(***************************************************************************)
(* executor.py: execute_blob_search.  Python dicts keep insertion order;   *)
(* a dict is a sequence of entries here, in that order.                    *)
(***************************************************************************)
SearchResult(filename, startline) ==
    [data |-> "chunk", filename |-> filename, ref |-> "main", startline |-> startline]

\* ResultIdentifier.from_result
ResultIdentifier(project, res) == <<project, res.filename>>

\* a request of search_blobs_in_project: not back yet, back with results,
\* or failed (raise_for_status raised)
InFlight == [state |-> "pending", hits |-> << >>]
Responded(hits) == [state |-> "ok", hits |-> hits]
Failed == [state |-> "failed", hits |-> << >>]

\* client.search_blobs_in_projects for one query, all its requests back:
\* (project, results) in the order of projects, projects without results
\* dropped
search_blobs_in_projects(projs, resp, query) ==
    SelectSeq([k \in 1..Len(projs) |->
                  [project |-> projs[k], hits |-> resp[<<query, projs[k]>>].hits]],
              LAMBDA e : e.hits # << >>)

\* lines 285-290 for one (project, search_results)
RECURSIVE add_results(_, _, _)
add_results(mapping, project, hits) ==
    IF hits = << >> THEN mapping
    ELSE LET rid == ResultIdentifier(project, Head(hits))
             known == \E k \in 1..Len(mapping) : mapping[k].rid = rid
             m1 == IF known THEN mapping
                   ELSE Append(mapping, [rid |-> rid, project |-> project, list |-> << >>])
             m2 == [k \in 1..Len(m1) |->
                       IF m1[k].rid = rid
                       THEN [m1[k] EXCEPT !.list = Append(@, Head(hits))]
                       ELSE m1[k]]
         IN  add_results(m2, project, Tail(hits))

\* query_results[query]: identifier -> (project, results of that file)
RECURSIVE build_mapping(_, _)
build_mapping(found, mapping) ==
    IF found = << >> THEN mapping
    ELSE build_mapping(Tail(found),
                       add_results(mapping, Head(found).project, Head(found).hits))

\* variant of add_new: appends without looking at the list
RECURSIVE add_new_Append(_, _)
add_new_Append(list, new) ==
    IF new = << >> THEN list
    ELSE add_new_Append(Append(list, Head(new)), Tail(new))

\* lines 317-319: add the results of one file to a project's list
RECURSIVE add_new(_, _)
add_new(list, new) ==
    IF new = << >> THEN list
    ELSE add_new(IF \E k \in 1..Len(list) : list[k] = Head(new)
                 THEN list ELSE Append(list, Head(new)),
                 Tail(new))

\* variant of collect_entries: keeps every entry, matching or not
RECURSIVE collect_entries_KeepAll(_, _, _)
collect_entries_KeepAll(entries, matching_ids, project_results) ==
    IF entries = << >> THEN project_results
    ELSE LET e == Head(entries)
             known == \E k \in 1..Len(project_results) :
                          project_results[k].project = e.project
             p1 == IF known THEN project_results
                   ELSE Append(project_results, [project |-> e.project, list |-> << >>])
             p2 == [k \in 1..Len(p1) |->
                       IF p1[k].project = e.project
                       THEN [p1[k] EXCEPT !.list = add_new(@, e.list)]
                       ELSE p1[k]]
         IN  collect_entries_KeepAll(Tail(entries), matching_ids, p2)

\* lines 312-319 over the entries of one query
RECURSIVE collect_entries(_, _, _)
collect_entries(entries, matching_ids, project_results) ==
    IF entries = << >> THEN project_results
    ELSE LET e == Head(entries)
             known == \E k \in 1..Len(project_results) :
                          project_results[k].project = e.project
             p1 == IF known THEN project_results
                   ELSE Append(project_results, [project |-> e.project, list |-> << >>])
             p2 == [k \in 1..Len(p1) |->
                       IF p1[k].project = e.project
                       THEN [p1[k] EXCEPT !.list = add_new(@, e.list)]
                       ELSE p1[k]]
         IN  collect_entries(Tail(entries), matching_ids,
                             IF e.rid \in matching_ids THEN p2 ELSE project_results)

\* lines 311-321 over the queries, in dict order
RECURSIVE collect(_, _, _, _)
collect(queries, query_results, matching_ids, project_results) ==
    IF queries = << >> THEN project_results
    ELSE collect(Tail(queries), query_results, matching_ids,
                 collect_entries(query_results[Head(queries)], matching_ids,
                                 project_results))

SearchIdle == [state |-> "idle", value |-> << >>, error |-> None]
SearchRunning == [state |-> "running", value |-> << >>, error |-> None]
SearchReturned(value) == [state |-> "returned", value |-> value, error |-> None]
SearchRaised(error) == [state |-> "raised", value |-> << >>, error |-> error]

QuerySet(queries) == {queries[k] : k \in 1..Len(queries)}

\* lines 282-306: the identity sets, the universe and the tree with the
\* universe set on its Not nodes
query_results_of(queries, projs, resp) ==
    [q \in QuerySet(queries) |->
        build_mapping(search_blobs_in_projects(projs, resp, q), << >>)]

id_sets_of(query_results) ==
    [q \in DOMAIN query_results |->
        {query_results[q][k].rid : k \in 1..Len(query_results[q])}]

\* variant of the universe: every file of every project, found or not
universe_of_EveryFile(id_sets) == {ResultIdentifier(p, SearchResult(f, 1)) : p \in 1..MaxProjects, f \in {<<"a", ".", "c">>, <<"b">>}}

universe_of(id_sets) == UNION {id_sets[q] : q \in DOMAIN id_sets}

\* lines 282-321, run once every request is back
assemble(tree, queries, projs, resp) ==
    LET query_results == query_results_of(queries, projs, resp)
        id_sets == id_sets_of(query_results)
        universe == universe_of(id_sets)
        matching == evaluate(set_universe(tree, universe), id_sets)
    IN  IF matching.state = "raised" THEN SearchRaised("ValueError")
        ELSE SearchReturned(collect(queries, query_results, matching.value, << >>))

\* variant of gather: the results in the order the tasks completed
gather_AsCompleted(aws, completed) == completed

\* asyncio.gather(*aws): the results in the order of the awaitables, in
\* whatever order they completed
gather(aws, completed) == aws

(***************************************************************************)
(* executor.py: matches_exclusion and the exclusion pass of execute_search.*)
(* A string is the sequence of its characters.                             *)
(***************************************************************************)
startswith(str, prefix) ==
    Len(prefix) <= Len(str) /\ SubSeq(str, 1, Len(prefix)) = prefix

endswith(str, suffix) ==
    Len(suffix) <= Len(str)
        /\ SubSeq(str, Len(str) - Len(suffix) + 1, Len(str)) = suffix

\* fnmatch.fnmatch where os.path.normcase changes nothing (POSIX), for
\* patterns of literal characters, "*" and "?"; the whole name must match
RECURSIVE fnmatch(_, _)
fnmatch(name, pattern) ==
    IF pattern = << >> THEN name = << >>
    ELSE IF Head(pattern) = "*"
         THEN fnmatch(name, Tail(pattern))
                  \/ (name # << >> /\ fnmatch(Tail(name), pattern))
    ELSE /\ name # << >>
         /\ Head(pattern) = "?" \/ Head(pattern) = Head(name)
         /\ fnmatch(Tail(name), Tail(pattern))

\* variant of matches_exclusion: the path patterns are tried on the path
\* only, never on the filename
matches_exclusion_NoFallback(filename, path, exclude_filenames, exclude_extensions, exclude_paths) ==
    \/ \E k \in 1..Len(exclude_filenames) : fnmatch(filename, exclude_filenames[k])
    \/ \E k \in 1..Len(exclude_extensions) :
          LET ext == exclude_extensions[k]
              ext_with_dot == IF startswith(ext, <<".">>) THEN ext ELSE <<".">> \o ext
          IN  endswith(filename, ext_with_dot)
    \/ \E k \in 1..Len(exclude_paths) : fnmatch(path, exclude_paths[k])

\* path is "" (here also for None) when there is none
matches_exclusion(filename, path, exclude_filenames, exclude_extensions, exclude_paths) ==
    \/ \E k \in 1..Len(exclude_filenames) : fnmatch(filename, exclude_filenames[k])
    \/ \E k \in 1..Len(exclude_extensions) :
          LET ext == exclude_extensions[k]
              ext_with_dot == IF startswith(ext, <<".">>) THEN ext ELSE <<".">> \o ext
          IN  endswith(filename, ext_with_dot)
    \/ LET check_path == IF path # << >> THEN path ELSE filename
       IN  \E k \in 1..Len(exclude_paths) : fnmatch(check_path, exclude_paths[k])

\* the exclusion attributes read from parsed: the ParsedCommand class
\* declares none of them, so reading one raises AttributeError; an object
\* that has them gives three lists
NoExclusionAttributes == [declared |-> FALSE]
ExclusionAttributes(filenames, extensions, paths) ==
    [declared |-> TRUE, exclude_filenames |-> filenames,
     exclude_extensions |-> extensions, exclude_paths |-> paths]

NoOutput == [state |-> "none", value |-> << >>, parsed |-> NoExclusionAttributes]
Printed(value, attrs) == [state |-> "printed", value |-> value, parsed |-> attrs]
OutputRaised(attrs) == [state |-> "raised", value |-> << >>, parsed |-> attrs]

\* lines 432-442 for one project: the results that no exclusion matches
kept_blobs(list, attrs) ==
    SelectSeq(list,
              LAMBDA r : ~matches_exclusion(r.filename, r.filename,
                                            attrs.exclude_filenames,
                                            attrs.exclude_extensions,
                                            attrs.exclude_paths))

\* variant of the exclusion pass: a project is kept whatever is left of it
filter_blobs_KeepEmpty(blob_results, attrs) ==
    [k \in 1..Len(blob_results) |->
        [project |-> blob_results[k].project,
         list |-> kept_blobs(blob_results[k].list, attrs)]]

\* lines 431-445: `if filtered: filtered_blobs.append((project, filtered))`
filter_blobs(blob_results, attrs) ==
    SelectSeq([k \in 1..Len(blob_results) |->
                  [project |-> blob_results[k].project,
                   list |-> kept_blobs(blob_results[k].list, attrs)]],
              LAMBDA e : e.list # << >>)

\* lines 429-446: the blob_results of the blobs scope as printed
blob_output(blob_results, attrs) ==
    IF ~attrs.declared THEN OutputRaised(attrs)
    ELSE IF attrs.exclude_filenames # << >> \/ attrs.exclude_extensions # << >>
              \/ attrs.exclude_paths # << >>
         THEN Printed(filter_blobs(blob_results, attrs), attrs)
         ELSE Printed(blob_results, attrs)

(***************************************************************************)
(* executor.py: execute_scope_search, for the scopes other than blobs and  *)
(* files.  A result is the dict the server sent.                           *)
(***************************************************************************)
ScopeResultIdentifier(project_id, item_id, item_type) ==
    [project_id |-> project_id, item_id |-> item_id, item_type |-> item_type]

\* dict.get(key, default)
get(dict, key, default) == IF key \in DOMAIN dict THEN dict[key] ELSE default

\* ScopeResultIdentifier.from_result; the ids are small integers, which
\* hash() leaves as they are
from_result(project, item, item_type) ==
    ScopeResultIdentifier(
        project,
        IF item_type \in {"issues", "merge_requests", "milestones"}
        THEN get(item, "iid", get(item, "id", 0))
        ELSE IF item_type = "commits"
             THEN get(item, "id", get(item, "short_id", 0))
        ELSE get(item, "id", 0),
        item_type)

\* client.search_scope_in_projects for one query, all its requests back
search_scope_in_projects(projs, resp, query) ==
    SelectSeq([k \in 1..Len(projs) |->
                  [project |-> projs[k], hits |-> resp[<<query, projs[k]>>].hits]],
              LAMBDA e : e.hits # << >>)

\* lines 358-360 for one (project, scope_results): the entry of an
\* identifier is assigned, a known key keeps its place in the dict
RECURSIVE put_results(_, _, _, _)
put_results(mapping, project, hits, item_type) ==
    IF hits = << >> THEN mapping
    ELSE LET rid == from_result(project, Head(hits), item_type)
             entry == [rid |-> rid, project |-> project, result |-> Head(hits)]
             known == \E k \in 1..Len(mapping) : mapping[k].rid = rid
             m1 == IF known
                   THEN [k \in 1..Len(mapping) |->
                            IF mapping[k].rid = rid THEN entry ELSE mapping[k]]
                   ELSE Append(mapping, entry)
         IN  put_results(m1, project, Tail(hits), item_type)

RECURSIVE build_scope_mapping(_, _, _)
build_scope_mapping(found, mapping, item_type) ==
    IF found = << >> THEN mapping
    ELSE build_scope_mapping(Tail(found),
                             put_results(mapping, Head(found).project,
                                         Head(found).hits, item_type),
                             item_type)

\* lines 376-381 over the entries of one query
RECURSIVE collect_scope_entries(_, _, _)
collect_scope_entries(entries, matching_ids, project_results) ==
    IF entries = << >> THEN project_results
    ELSE LET e == Head(entries)
             known == \E k \in 1..Len(project_results) :
                          project_results[k].project = e.project
             p1 == IF known THEN project_results
                   ELSE Append(project_results, [project |-> e.project, list |-> << >>])
             p2 == [k \in 1..Len(p1) |->
                       IF p1[k].project = e.project
                       THEN [p1[k] EXCEPT !.list = add_new(@, <<e.result>>)]
                       ELSE p1[k]]
         IN  collect_scope_entries(Tail(entries), matching_ids,
                                   IF e.rid \in matching_ids THEN p2
                                   ELSE project_results)

\* lines 375-381 over the queries, in dict order
RECURSIVE collect_scope(_, _, _, _)
collect_scope(queries, query_results, matching_ids, project_results) ==
    IF queries = << >> THEN project_results
    ELSE collect_scope(Tail(queries), query_results, matching_ids,
                       collect_scope_entries(query_results[Head(queries)],
                                             matching_ids, project_results))

scope_query_results_of(queries, projs, resp, item_type) ==
    [q \in QuerySet(queries) |->
        build_scope_mapping(search_scope_in_projects(projs, resp, q), << >>,
                            item_type)]

\* lines 355-383, run once every request is back
scope_assemble(tree, queries, projs, resp, item_type) ==
    LET query_results == scope_query_results_of(queries, projs, resp, item_type)
        id_sets == id_sets_of(query_results)
        universe == universe_of(id_sets)
        matching == evaluate(set_universe(tree, universe), id_sets)
    IN  IF matching.state = "raised" THEN SearchRaised("ValueError")
        ELSE SearchReturned(collect_scope(queries, query_results, matching.value,
                                          << >>))

(***************************************************************************)
(* gitlab.py: FileCriteriaPatterns and search_filenames_in_projects;       *)
(* executor.py: the files scope of execute_search.                         *)
(***************************************************************************)
lower_char(c) ==
    CASE c = "A" -> "a" [] c = "B" -> "b" [] c = "C" -> "c" [] OTHER -> c

lower(str) == [k \in 1..Len(str) |-> lower_char(str[k])]

\* SearchCriteria without its search_query; "" (here also for None) is
\* a criterion that is not set
SearchCriteria(filename, extension, path) ==
    [filename |-> filename, extension |-> extension, path |-> path]

\* FileCriteriaPatterns.matches: the patterns are compiled with
\* re.IGNORECASE, fnmatch.translate anchors at both ends, the extension
\* is searched for at the end of the name
patterns_matches(criteria, name, path) ==
    /\ criteria.filename # << >> => fnmatch(lower(name), lower(criteria.filename))
    /\ criteria.extension # << >> =>
          LET ext == criteria.extension
              ext_with_dot == IF startswith(ext, <<".">>) THEN ext ELSE <<".">> \o ext
          IN  endswith(lower(name), lower(ext_with_dot))
    /\ criteria.path # << >> => fnmatch(lower(path), lower(criteria.path))

FileResult(path, name, type) == [path |-> path, name |-> name, type |-> type]

\* search_filenames_in_project: a listing that fails with HTTPError gives
\* no files; otherwise the blobs of the tree that match the patterns
search_filenames_in_project(response, criteria) ==
    IF response.state = "failed" THEN << >>
    ELSE LET matching == SelectSeq(response.hits,
                             LAMBDA f : f.type = "blob"
                                          /\ patterns_matches(criteria, f.name, f.path))
         IN  [k \in 1..Len(matching) |->
                 FileResult(matching[k].path, matching[k].name, matching[k].type)]

\* search_filenames_in_projects: `[(p, r) for p, r in results if r]`
search_filenames_in_projects(projs, resp, criteria) ==
    SelectSeq([k \in 1..Len(projs) |->
                  [project |-> projs[k],
                   list |-> search_filenames_in_project(resp[<<"", projs[k]>>],
                                                        criteria)]],
              LAMBDA e : e.list # << >>)

\* lines 459-468 for one project
kept_files(list, attrs) ==
    SelectSeq(list,
              LAMBDA f : ~matches_exclusion(f.name, f.path,
                                            attrs.exclude_filenames,
                                            attrs.exclude_extensions,
                                            attrs.exclude_paths))

\* lines 457-471: `if kept: filtered_files.append((project, kept))`
filter_files(file_results, attrs) ==
    SelectSeq([k \in 1..Len(file_results) |->
                  [project |-> file_results[k].project,
                   list |-> kept_files(file_results[k].list, attrs)]],
              LAMBDA e : e.list # << >>)

\* lines 448-473: the results of the files scope as printed
file_output(file_results, attrs) ==
    IF ~attrs.declared THEN OutputRaised(attrs)
    ELSE IF attrs.exclude_filenames # << >> \/ attrs.exclude_extensions # << >>
              \/ attrs.exclude_paths # << >>
         THEN Printed(filter_files(file_results, attrs), attrs)
         ELSE Printed(file_results, attrs)

(***************************************************************************)
(* executor.py: resolve_projects, with the listing calls of gitlab.py.     *)
(* A project is its id; a group is its id (a string) and its name.         *)
(***************************************************************************)
Group(id, name) == [id |-> id, name |-> name]

\* fetch_groups with names: no request, Group(id=name, name=name) for each
\* name of ",".join(names).split(","); the names come from a split on ","
\* and hold no comma
fetch_groups(names) == [k \in 1..Len(names) |-> Group(names[k], names[k])]

\* fetch_projects_in_groups, lines 354-380: the groups to list, given what
\* the descendant requests returned (a failed one returns [])
RECURSIVE concat(_)
concat(lists) == IF lists = << >> THEN << >> ELSE Head(lists) \o concat(Tail(lists))

all_groups_of(groups, recursive, descendant_results, exclude_groups) ==
    LET all_groups == IF recursive THEN groups \o concat(descendant_results)
                      ELSE groups
        exclude_set == {exclude_groups[k] : k \in 1..Len(exclude_groups)}
    IN  IF exclude_groups # << >>
        THEN SelectSeq(all_groups,
                       LAMBDA g : g.id \notin exclude_set /\ g.name \notin exclude_set)
        ELSE all_groups

\* the requests of fetch_projects_in_groups: with recursive, one
\* descendant_groups request per group given (lines 357-360), then, after
\* the exclusion filter, one projects request per group left (lines 382-389)
group_requests(groups, recursive, descendant_results, exclude_groups) ==
    LET all_groups == all_groups_of(groups, recursive, descendant_results,
                                    exclude_groups)
    IN  (IF recursive
         THEN {<<"descendant_groups", groups[k].id>> : k \in 1..Len(groups)}
         ELSE {})
        \cup {<<"projects", all_groups[k].id>> : k \in 1..Len(all_groups)}

\* fetch_projects_by_ids: one request per reference
project_requests(refs) == {<<"project", refs[k]>> : k \in 1..Len(refs)}

\* variant of the merging loop: appends every project
add_unseen_All(acc, list) ==
    [projects |-> acc.projects \o list,
     seen |-> acc.seen \cup {list[k] : k \in 1..Len(list)}]

\* `for p in ...: if p.id not in seen_ids: projects.append(p); seen_ids.add(p.id)`
RECURSIVE add_unseen(_, _)
add_unseen(acc, list) ==
    IF list = << >> THEN acc
    ELSE add_unseen(IF Head(list) \in acc.seen THEN acc
                    ELSE [projects |-> Append(acc.projects, Head(list)),
                          seen |-> acc.seen \cup {Head(list)}],
                    Tail(list))

\* fetch_projects_in_groups, lines 390-409: flatten the listings of the
\* groups, keeping the first occurrence of each project id
flatten_projects(listings) ==
    add_unseen([projects |-> << >>, seen |-> {}], concat(listings)).projects

\* variant of the exclusion filter: the filtered list is not assigned
without_excluded_Unassigned(list, excluded) == list

\* `projects = [p for p in projects if p.id not in excluded_ids]`
without_excluded(list, excluded) ==
    SelectSeq(list, LAMBDA p : p \notin {excluded[k] : k \in 1..Len(excluded)})

\* `if not parsed.groups and not parsed.projects and not parsed.user and not
\* parsed.my_projects`
nothing_specified(cmd) ==
    /\ cmd.groups = << >>
    /\ cmd.projects = << >>
    /\ cmd.user = None
    /\ ~cmd.my_projects

(***************************************************************************)
(* gitlab.py: GitLabClient._request and the semaphore made in __init__.    *)
(* A task is one coroutine that sends its requests one after the other:    *)
(* one request, or the pages of a _paginated_request.                      *)
(***************************************************************************)
\* a task before `async with self.semaphore`, blocked in it, woken with a
\* permit, inside it (the request is in flight), or over
Ready(page) == [state |-> "ready", page |-> page]
Waiting(page) == [state |-> "waiting", page |-> page]
Granted(page) == [state |-> "granted", page |-> page]
InRequest(page) == [state |-> "in_flight", page |-> page]
Finished(page) == [state |-> "finished", page |-> page]
TaskFailed(page) == [state |-> "failed", page |-> page]

\* variant of Semaphore.locked: never locked
locked_Never(value, queue) == FALSE

\* Semaphore.locked: no permit left, or tasks already waiting
locked(value, queue) == value = 0 \/ queue # << >>

\* variant of release: the counter goes up, no waiter is woken
release_NoWakeUp(value, queue, all) == [value |-> value + 1, queue |-> queue, all |-> all]

\* Semaphore.release as the exit of `async with`: the counter goes up by
\* one and the first waiter, if any, takes the permit at once
release(value, queue, all) ==
    IF queue = << >>
    THEN [value |-> value + 1, queue |-> queue, all |-> all]
    ELSE [value |-> value, queue |-> Tail(queue),
          all |-> [all EXCEPT ![Head(queue)] = Granted(@.page)]]

(***************************************************************************)
(* gitlab.py: how the list and search operations of the client fetch their *)
(* data: through _paginated_request, or with one _request.                 *)
(***************************************************************************)
\* fetch_groups (all groups), fetch_descendant_groups, fetch_group_projects
\* in fetch_projects_in_groups, fetch_user_projects, fetch_my_projects and
\* search_filenames_in_project call _paginated_request
Paginated ==
    {"fetch_groups", "fetch_descendant_groups", "fetch_group_projects",
     "fetch_user_projects", "fetch_my_projects", "search_filenames_in_project"}

\* search_blobs_in_project and search_scope_in_project call _request
SingleRequest == {"search_blobs_in_project", "search_scope_in_project"}

\* an operation and the pages the server has for it, each a list of items
Operation(name, pages) == [name |-> name, pages |-> pages]

\* the operation is about to request `page`, waits for it, has returned the
\* items, or has raised
PageReady(page, items) == [state |-> "ready", page |-> page, items |-> items]
PageInFlight(page, items) == [state |-> "in_flight", page |-> page, items |-> items]
PageReturned(page, items) == [state |-> "returned", page |-> page, items |-> items]
PageRaised(page) == [state |-> "raised", page |-> page, items |-> << >>]

\* get_next_pagination_url: the Link header of a page names the next page
\* when the server has one; 0 stands for None
get_next_pagination_url(pages, page) == IF page < Len(pages) THEN page + 1 ELSE 0

\* the response to the request for a page has come: _paginated_request goes
\* on to the page the Link header names, the searches never look at it
after_response(op, at) ==
    LET items == at.items \o op.pages[at.page]
        next_url == get_next_pagination_url(op.pages, at.page)
    IN  IF op.name \in Paginated /\ next_url # 0
        THEN PageReady(next_url, items)
        ELSE PageReturned(at.page, items)

(***************************************************************************)
(* Idle values: what a component's variables hold under the specification  *)
(* of another component.                                                   *)
(***************************************************************************)
EvalIdle ==
    /\ expr = QueryNode("a")
    /\ results = << >>
    /\ assigned = FALSE
    /\ outcome = Pending

ParseIdle ==
    /\ tokens = <<EOF>>
    /\ parsed = NotParsed

TokIdle ==
    /\ args = << >>
    /\ result = TokenizeResult
    /\ pending_not = FALSE
    /\ tstate = "idle"

BlobIdle ==
    /\ expression = NoneNode
    /\ all_queries = << >>
    /\ projects = << >>
    /\ responses = << >>
    /\ sent = << >>
    /\ search = SearchIdle
    /\ scope = None
    /\ search_criteria = None
    /\ output = NoOutput

CmdIdle ==
    /\ command = ParsedCommand(NoneNode)
    /\ query_list = QueriesPending

ResolveIdle ==
    /\ scope_cmd = [groups |-> << >>, projects |-> << >>, user |-> None,
                    my_projects |-> FALSE, exclude_projects |-> << >>,
                    exclude_groups |-> << >>, recursive |-> FALSE]
    /\ resolved = << >>
    /\ seen_ids = {}
    /\ fetched = << >>
    /\ requested = {}
    /\ request_error = None
    /\ rstate = "idle"

ClientIdle ==
    /\ max_requests = 0
    /\ sem_value = 0
    /\ waiters = << >>
    /\ tasks = << >>

ExclIdle ==
    /\ exclusion_call = None
    /\ exclusion = None

PageIdle ==
    /\ operation = None
    /\ paging = None

MapIdle ==
    /\ mapped_scope = None
    /\ raw_results = << >>
    /\ term_mapping = [state |-> "pending", value |-> << >>]

GatherIdle ==
    /\ answers = << >>
    /\ arrived = << >>

EvalAlone ==
    ParseIdle /\ TokIdle /\ BlobIdle /\ CmdIdle /\ ResolveIdle /\
        ClientIdle /\ ExclIdle /\ PageIdle /\ MapIdle /\ GatherIdle
ParseAlone ==
    EvalIdle /\ TokIdle /\ BlobIdle /\ CmdIdle /\ ResolveIdle /\
        ClientIdle /\ ExclIdle /\ PageIdle /\ MapIdle /\ GatherIdle
TokAlone ==
    EvalIdle /\ ParseIdle /\ BlobIdle /\ CmdIdle /\ ResolveIdle /\
        ClientIdle /\ ExclIdle /\ PageIdle /\ MapIdle /\ GatherIdle
BlobAlone ==
    EvalIdle /\ ParseIdle /\ TokIdle /\ CmdIdle /\ ResolveIdle /\
        ClientIdle /\ ExclIdle /\ PageIdle /\ MapIdle /\ GatherIdle
CmdAlone ==
    EvalIdle /\ ParseIdle /\ TokIdle /\ BlobIdle /\ ResolveIdle /\
        ClientIdle /\ ExclIdle /\ PageIdle /\ MapIdle /\ GatherIdle
ResolveAlone ==
    EvalIdle /\ ParseIdle /\ TokIdle /\ BlobIdle /\ CmdIdle /\ ClientIdle /\
        ExclIdle /\ PageIdle /\ MapIdle /\ GatherIdle
ClientAlone ==
    EvalIdle /\ ParseIdle /\ TokIdle /\ BlobIdle /\ CmdIdle /\ ResolveIdle /\
        ExclIdle /\ PageIdle /\ MapIdle /\ GatherIdle
ExclAlone ==
    EvalIdle /\ ParseIdle /\ TokIdle /\ BlobIdle /\ CmdIdle /\ ResolveIdle /\
        ClientIdle /\ PageIdle /\ MapIdle /\ GatherIdle
PageAlone ==
    EvalIdle /\ ParseIdle /\ TokIdle /\ BlobIdle /\ CmdIdle /\ ResolveIdle /\
        ClientIdle /\ ExclIdle /\ MapIdle /\ GatherIdle
MapAlone ==
    EvalIdle /\ ParseIdle /\ TokIdle /\ BlobIdle /\ CmdIdle /\ ResolveIdle /\
        ClientIdle /\ ExclIdle /\ PageIdle /\ GatherIdle
GatherAlone ==
    EvalIdle /\ ParseIdle /\ TokIdle /\ BlobIdle /\ CmdIdle /\ ResolveIdle /\
        ClientIdle /\ ExclIdle /\ PageIdle /\ MapIdle

(***************************************************************************)
(* ParseSpec: a token stream as tokenize_args ends it (one EOF, last),     *)
(* then parse().                                                           *)
(***************************************************************************)
Q(t) == Token("QUERY", t)
AND == Token("AND", None)
OR == Token("OR", None)
NOT == Token("NOT", None)
LPAREN == Token("LPAREN", None)
RPAREN == Token("RPAREN", None)

TokenAlphabet == {Q(t) : t \in Terms} \cup {AND, OR, NOT, LPAREN, RPAREN}

TokenStreams ==
    {body \o <<EOF>> : body \in UNION {[1..n -> TokenAlphabet] : n \in 0..MaxTokens}}

ParseInit ==
    /\ tokens \in TokenStreams
    /\ parsed = NotParsed
    /\ ParseAlone

Parse ==
    /\ parsed.state = "pending"
    /\ parsed' = parse(tokens)
    /\ UNCHANGED <<tokens, exceptParse>>

ParseNext == Parse

ParseSpec == ParseInit /\ [][ParseNext]_vars

(***************************************************************************)
(* EvalSpec: build a tree, optionally run the universe pass, evaluate.     *)
(***************************************************************************)
EvalInit ==
    /\ expr \in ExprTrees
    /\ results \in ResultDicts
    /\ assigned = FALSE
    /\ outcome = Pending
    /\ EvalAlone

SetUniverse ==
    /\ outcome.state = "pending"
    /\ ~assigned
    /\ \E universe \in SUBSET Ids : expr' = set_universe(expr, universe)
    /\ assigned' = TRUE
    /\ UNCHANGED <<results, outcome, exceptEval>>

Evaluate ==
    /\ outcome.state = "pending"
    /\ outcome' = evaluate(expr, results)
    /\ UNCHANGED <<expr, results, assigned, exceptEval>>

EvalNext == SetUniverse \/ Evaluate

EvalSpec == EvalInit /\ [][EvalNext]_vars

(***************************************************************************)
(* TokSpec: tokenize_args reading an argument list left to right, one loop *)
(* iteration per step; the list is any sequence over the flags and values  *)
(* below, and it ends when TokenizeEnd finds no argument left.             *)
(***************************************************************************)
PlainFlags == {"-a", "-o", "-not", "!", "(", ")", "--debug"}
ValuedArgs ==
    {<<"-q", "x">>, <<"-g", "x">>, <<"-g", "y,z">>, <<"-p", "y,z">>,
     <<"-f", "x">>, <<"-e", "x">>, <<"-e", "y,z">>, <<"-P", "x">>}
\* arguments that end the run in ParseError: an unknown option, a
\* positional, a flag whose value is missing
LastArgs ==
    {<<"-r">>, <<"--recursive">>, <<"x">>, <<"-q">>, <<"-g">>, <<"-p">>, <<"-u">>,
     <<"-s">>, <<"-f">>, <<"-e">>, <<"-P">>}

ArgUnits == {<<f>> : f \in PlainFlags} \cup ValuedArgs \cup LastArgs

TokInit ==
    /\ args = << >>
    /\ result = TokenizeResult
    /\ pending_not = FALSE
    /\ tstate = "running"
    /\ TokAlone

\* one iteration of `while i < len(args)`
TokenizeArg ==
    /\ tstate = "running"
    /\ \E unit \in ArgUnits :
          /\ Len(args) < MaxArgs
          /\ LET it == tokenize_arg(result, pending_not, unit[1], Tail(unit))
             IN  /\ args' = Append(args, unit)
                 /\ result' = it.result
                 /\ pending_not' = it.pending_not
                 /\ tstate' = IF it.error THEN "error" ELSE "running"
    /\ UNCHANGED exceptTok

\* the loop exits: result.tokens.append(Token(TokenType.EOF)); return result
TokenizeEnd ==
    /\ tstate = "running"
    /\ result' = [result EXCEPT !.tokens = Append(@, EOF)]
    /\ tstate' = "done"
    /\ UNCHANGED <<args, pending_not, exceptTok>>

TokNext == TokenizeArg \/ TokenizeEnd

TokSpec == TokInit /\ [][TokNext]_vars

(***************************************************************************)
(* BlobSpec: execute_blob_search on a parsed expression.  It starts one    *)
(* request per (query, project); the requests come back in any order, each *)
(* with a list of results or a failure; when all are back (gather), the    *)
(* rest of the function runs without yielding.                             *)
(***************************************************************************)
\* the files a.c and b
Files == {<<"a", ".", "c">>, <<"b">>}
Payloads == {SearchResult(f, 1) : f \in Files}
HitLists == UNION {[1..n -> Payloads] : n \in 0..MaxHits}

RECURSIVE SearchTreesWithOps(_)
SearchTreesWithOps(n) ==
    IF n = 0 THEN {QueryNode(q) : q \in Terms}
    ELSE {NotNode(c, {}) : c \in SearchTreesWithOps(n - 1)}
         \cup UNION {UNION {{AndNode(l, r), OrNode(l, r)} :
                              l \in SearchTreesWithOps(i),
                              r \in SearchTreesWithOps(n - 1 - i)} :
                     i \in 0..(n - 1)}

SearchExprs == UNION {SearchTreesWithOps(n) : n \in 0..MaxSearchOps}

ProjectLists == {<<1, 2>>, <<2, 1>>}

Requests == {<<all_queries[k], projects[j]>> :
                k \in 1..Len(all_queries), j \in 1..Len(projects)}

BlobInit ==
    /\ expression \in SearchExprs
    /\ all_queries = get_all_queries(expression)
    /\ projects \in ProjectLists
    /\ responses = << >>
    /\ sent = << >>
    /\ search = SearchIdle
    /\ scope = "blobs"
    /\ search_criteria = SearchCriteria(<< >>, << >>, << >>)
    /\ output = NoOutput
    /\ BlobAlone

\* lines 268-280 with search_blobs_in_projects: one task per query, each
\* starting one search_blobs_in_project request per project
search_requests(queries, projs) ==
    [i \in 1..(Len(queries) * Len(projs)) |->
        <<queries[((i - 1) \div Len(projs)) + 1], projs[((i - 1) % Len(projs)) + 1]>>]

\* variant of gathered: gather hands over as soon as one request is back
gathered_FirstBack(resp) == \E r \in DOMAIN resp : resp[r].state = "ok"

\* lines 278-280: `await asyncio.gather` resumes with the results when every
\* task has returned
gathered(resp) == \A r \in DOMAIN resp : resp[r].state = "ok"

\* lines 261-280: no query, no search; else one task per query, each
\* starting one request per project
StartSearch ==
    /\ search.state = "idle"
    /\ IF all_queries = << >>
       THEN /\ search' = SearchReturned(<< >>)
            /\ UNCHANGED <<responses, sent>>
       ELSE /\ search' = SearchRunning
            /\ responses' = [r \in Requests |-> InFlight]
            /\ sent' = search_requests(all_queries, projects)
    /\ UNCHANGED <<expression, all_queries, projects, scope,
                   search_criteria, output, exceptBlob>>

\* a request returns its results
RequestReturns ==
    /\ search.state = "running"
    /\ \E r \in DOMAIN responses :
          /\ responses[r].state = "pending"
          /\ \E hits \in HitLists : responses' = [responses EXCEPT ![r] = Responded(hits)]
    /\ UNCHANGED <<expression, all_queries, projects, search, scope,
                   search_criteria, output, sent, exceptBlob>>

\* a request fails: raise_for_status raises, and gather passes the
\* exception on to the caller of execute_blob_search
RequestFails ==
    /\ search.state = "running"
    /\ \E r \in DOMAIN responses :
          /\ responses[r].state = "pending"
          /\ responses' = [responses EXCEPT ![r] = Failed]
    /\ search' = SearchRaised("HTTPError")
    /\ UNCHANGED <<expression, all_queries, projects, scope,
                   search_criteria, output, sent, exceptBlob>>

\* every request is back: lines 282-321
Assemble ==
    /\ search.state = "running"
    /\ gathered(responses)
    /\ expression' = set_universe(expression,
                        universe_of(id_sets_of(
                            query_results_of(all_queries, projects, responses))))
    /\ search' = assemble(expression, all_queries, projects, responses)
    /\ UNCHANGED <<all_queries, projects, responses, scope,
                   search_criteria, output, sent, exceptBlob>>

BlobNext == StartSearch \/ RequestReturns \/ RequestFails \/ Assemble

BlobSpec == BlobInit /\ [][BlobNext]_vars

(***************************************************************************)
(* ScopeSpec: one call of execute_scope_search for the issues scope, its   *)
(* requests returning one at a time as in BlobSpec.  execute_search hands  *)
(* the same tree to every scope: a tree with a Not node comes fresh, or as *)
(* the blobs scope searched before left it.                                *)
(***************************************************************************)
Issue(iid, title) == [iid |-> iid, title |-> title]
Issues == {Issue(1, "x"), Issue(2, "y")}
IssueLists == UNION {[1..n -> Issues] : n \in 0..MaxHits}

\* the blobs scope before: every request found the file b
BlobsBefore(queries, projs) ==
    [r \in {<<queries[k], projs[j]>> : k \in 1..Len(queries), j \in 1..Len(projs)} |->
        Responded(<<SearchResult(<<"b">>, 1)>>)]

ScopeInit ==
    /\ \E tree \in SearchExprs, after_blobs \in BOOLEAN :
          LET queries == get_all_queries(tree)
              before == BlobsBefore(queries, projects)
          IN  /\ after_blobs => HasNot(tree)
              /\ all_queries = queries
              /\ projects \in ProjectLists
              /\ expression =
                    IF after_blobs
                    THEN set_universe(tree,
                             universe_of(id_sets_of(
                                 query_results_of(queries, projects, before))))
                    ELSE tree
              /\ output =
                    IF after_blobs
                    THEN blob_output(assemble(tree, queries, projects, before).value,
                                     ExclusionAttributes(<< >>, << >>, << >>))
                    ELSE NoOutput
    /\ responses = << >>
    /\ sent = << >>
    /\ search = SearchIdle
    /\ scope = "issues"
    /\ search_criteria = SearchCriteria(<< >>, << >>, << >>)
    /\ BlobAlone

\* a request returns its results
ScopeRequestReturns ==
    /\ search.state = "running"
    /\ \E r \in DOMAIN responses :
          /\ responses[r].state = "pending"
          /\ \E hits \in IssueLists :
                responses' = [responses EXCEPT ![r] = Responded(hits)]
    /\ UNCHANGED <<expression, all_queries, projects, search, scope,
                   search_criteria, output, sent, exceptBlob>>

\* every request is back: lines 355-383
ScopeAssemble ==
    /\ search.state = "running"
    /\ gathered(responses)
    /\ expression' = set_universe(expression,
                        universe_of(id_sets_of(
                            scope_query_results_of(all_queries, projects, responses,
                                                   scope))))
    /\ search' = scope_assemble(expression, all_queries, projects, responses, scope)
    /\ UNCHANGED <<all_queries, projects, responses, scope,
                   search_criteria, output, sent, exceptBlob>>

ScopeNext == StartSearch \/ ScopeRequestReturns \/ RequestFails \/ ScopeAssemble

ScopeSpec == ScopeInit /\ [][ScopeNext]_vars

(***************************************************************************)
(* SearchSpec: the body of execute_search's loop for one scope: blobs,     *)
(* files, or issues for the scopes that execute_scope_search serves.  A    *)
(* call of execute_blob_search or execute_scope_search is one step here,   *)
(* the outcomes of its requests are the step's input.                      *)
(***************************************************************************)
Scopes == {"blobs", "files", "issues"}

\* entries of a repository tree: d/b, a.c and the directory d
TreeEntries ==
    {[path |-> <<"d", "/", "b">>, name |-> <<"b">>, type |-> "blob"],
     [path |-> <<"a", ".", "c">>, name |-> <<"a", ".", "c">>, type |-> "blob"],
     [path |-> <<"d">>, name |-> <<"d">>, type |-> "tree"]}
TreeLists == UNION {[1..n -> TreeEntries] : n \in 0..MaxHits}

\* no criterion, -f B, -e C, -P "d/*"
CriteriaInputs ==
    {SearchCriteria(<< >>, << >>, << >>),
     SearchCriteria(<<"B">>, << >>, << >>),
     SearchCriteria(<< >>, <<"C">>, << >>),
     SearchCriteria(<< >>, << >>, <<"d", "/", "*">>)}

\* the exclusion attributes a run may find on parsed: none, empty lists,
\* or one pattern (a*, the extension c, *b)
ExclusionInputs ==
    {NoExclusionAttributes,
     ExclusionAttributes(<< >>, << >>, << >>),
     ExclusionAttributes(<< <<"a", "*">> >>, << >>, << >>),
     ExclusionAttributes(<< >>, << <<"c">> >>, << >>),
     ExclusionAttributes(<< >>, << >>, << <<"*", "b">> >>)}

\* what the requests of one search call may come to
Outcomes(lists) == {Failed} \cup {Responded(hits) : hits \in lists}

\* the files scope reads neither the expression nor its terms
SearchInit ==
    /\ scope \in Scopes
    /\ expression \in IF scope = "files" THEN {QueryNode("a")} ELSE SearchExprs
    /\ all_queries = get_all_queries(expression)
    /\ projects \in ProjectLists
    /\ search_criteria \in IF scope = "files" THEN CriteriaInputs
                           ELSE {SearchCriteria(<< >>, << >>, << >>)}
    /\ responses = << >>
    /\ sent = << >>
    /\ search = SearchIdle
    /\ output = NoOutput
    /\ BlobAlone

\* execute_search, lines 415-428: execute_blob_search from call to return;
\* one failed request makes gather raise
BlobSearch ==
    /\ scope = "blobs"
    /\ search.state = "idle"
    /\ IF all_queries = << >>
       THEN /\ search' = SearchReturned(<< >>)
            /\ UNCHANGED expression
       ELSE \E resp \in [Requests -> Outcomes(HitLists)] :
               IF \E r \in Requests : resp[r].state = "failed"
               THEN /\ search' = SearchRaised("HTTPError")
                    /\ UNCHANGED expression
               ELSE /\ expression' = set_universe(expression,
                                        universe_of(id_sets_of(
                                            query_results_of(all_queries, projects,
                                                             resp))))
                    /\ search' = assemble(expression, all_queries, projects, resp)
    /\ sent' = search_requests(all_queries, projects)
    /\ UNCHANGED <<all_queries, projects, responses, scope, search_criteria, output,
                   exceptBlob>>

\* execute_search, lines 429-446: the exclusion pass, then the printer
FilterBlobs ==
    /\ scope = "blobs"
    /\ search.state = "returned"
    /\ output.state = "none"
    /\ \E attrs \in ExclusionInputs : output' = blob_output(search.value, attrs)
    /\ UNCHANGED <<expression, all_queries, projects, responses, search, scope,
                   search_criteria, sent, exceptBlob>>

\* execute_search, lines 475-485: execute_scope_search from call to return
ScopeSearch ==
    /\ scope \notin {"blobs", "files"}
    /\ search.state = "idle"
    /\ IF all_queries = << >>
       THEN /\ search' = SearchReturned(<< >>)
            /\ UNCHANGED expression
       ELSE \E resp \in [Requests -> Outcomes(IssueLists)] :
               IF \E r \in Requests : resp[r].state = "failed"
               THEN /\ search' = SearchRaised("HTTPError")
                    /\ UNCHANGED expression
               ELSE /\ expression' = set_universe(expression,
                                        universe_of(id_sets_of(
                                            scope_query_results_of(all_queries,
                                                projects, resp, scope))))
                    /\ search' = scope_assemble(expression, all_queries, projects,
                                                resp, scope)
    /\ sent' = search_requests(all_queries, projects)
    /\ UNCHANGED <<all_queries, projects, responses, scope, search_criteria, output,
                   exceptBlob>>

\* execute_search, line 486: the results go to the printer as they are
PrintScope ==
    /\ scope \notin {"blobs", "files"}
    /\ search.state = "returned"
    /\ output.state = "none"
    /\ output' = Printed(search.value, NoExclusionAttributes)
    /\ UNCHANGED <<expression, all_queries, projects, responses, search, scope,
                   search_criteria, sent, exceptBlob>>

\* search_filenames_in_projects: one tree listing per project
StartFiles ==
    /\ scope = "files"
    /\ search.state = "idle"
    /\ search' = SearchRunning
    /\ responses' = [r \in {<<"", projects[j]>> : j \in 1..Len(projects)} |-> InFlight]
    /\ UNCHANGED <<expression, all_queries, projects, scope, search_criteria, output,
                   sent, exceptBlob>>

\* a listing returns the entries of the tree
ListingReturns ==
    /\ scope = "files"
    /\ search.state = "running"
    /\ \E r \in DOMAIN responses :
          /\ responses[r].state = "pending"
          /\ \E hits \in TreeLists :
                responses' = [responses EXCEPT ![r] = Responded(hits)]
    /\ UNCHANGED <<expression, all_queries, projects, search, scope, search_criteria,
                   output, sent, exceptBlob>>

\* a listing fails with HTTPError, which search_filenames_in_project catches
ListingFails ==
    /\ scope = "files"
    /\ search.state = "running"
    /\ \E r \in DOMAIN responses :
          /\ responses[r].state = "pending"
          /\ responses' = [responses EXCEPT ![r] = Failed]
    /\ UNCHANGED <<expression, all_queries, projects, search, scope, search_criteria,
                   output, sent, exceptBlob>>

\* every listing is over: gather returns
FilesReturn ==
    /\ scope = "files"
    /\ search.state = "running"
    /\ \A r \in DOMAIN responses : responses[r].state # "pending"
    /\ search' = SearchReturned(search_filenames_in_projects(projects, responses,
                                                             search_criteria))
    /\ UNCHANGED <<expression, all_queries, projects, responses, scope,
                   search_criteria, output, sent, exceptBlob>>

\* execute_search, lines 456-473: the exclusion pass, then the printer
FilterFiles ==
    /\ scope = "files"
    /\ search.state = "returned"
    /\ output.state = "none"
    /\ \E attrs \in ExclusionInputs : output' = file_output(search.value, attrs)
    /\ UNCHANGED <<expression, all_queries, projects, responses, search, scope,
                   search_criteria, sent, exceptBlob>>

SearchNext ==
    \/ BlobSearch \/ FilterBlobs
    \/ ScopeSearch \/ PrintScope
    \/ StartFiles \/ ListingReturns \/ ListingFails \/ FilesReturn \/ FilterFiles

SearchSpec == SearchInit /\ [][SearchNext]_vars

(***************************************************************************)
(* CommandSpec: a ParsedCommand with or without an expression, and a call  *)
(* of its get_all_queries.                                                 *)
(***************************************************************************)
CmdInit ==
    /\ command \in {ParsedCommand(e) : e \in ExprTrees \cup {NoneNode}}
    /\ query_list = QueriesPending
    /\ CmdAlone

GetAllQueries ==
    /\ query_list.state = "pending"
    /\ query_list' = QueriesReturned(get_all_queries(command.query_expression))
    /\ UNCHANGED <<command, exceptCmd>>

CmdNext == GetAllQueries

CmdSpec == CmdInit /\ [][CmdNext]_vars

(***************************************************************************)
(* ResolveSpec: resolve_projects, one action per source, in the order of   *)
(* the code; each action draws what the server answers.  A request that    *)
(* fails raises out of resolve_projects, except a descendant-groups        *)
(* request, whose failure fetch_descendant_groups turns into [].           *)
(***************************************************************************)
ProjectIds == 1..MaxProjects

\* what one listing request returns: some projects, each once
Listings ==
    {l \in UNION {[1..n -> ProjectIds] : n \in 0..MaxProjects} :
        \A i, j \in 1..Len(l) : i # j => l[i] # l[j]}

\* the server's projects by reference: an id, or a path
ProjectRefId(ref) ==
    CASE ref = "1" -> 1 [] ref = "2" -> 2 [] ref = "path/1" -> 1 [] ref = "path/0" -> 0

\* the server's groups, as /groups lists them, and the subgroup of g1
ServerGroups == <<Group("5", "g1"), Group("6", "g2")>>
SubGroup == Group("7", "g1/sub")
DescendantsOf(g) == IF g.name = "g1" THEN {<< >>, <<SubGroup>>} ELSE {<< >>}

ScopeCommands ==
    [groups : {<< >>, <<"g1">>, <<"g1", "g2">>},
     projects : {<< >>, <<"1">>, <<"2", "path/1", "path/0">>},
     user : {None, "u"},
     my_projects : BOOLEAN,
     exclude_projects : {<< >>, <<"1">>},
     exclude_groups : {<< >>, <<"g2">>},
     recursive : BOOLEAN]

ResolveInit ==
    /\ scope_cmd \in ScopeCommands
    /\ resolved = << >>
    /\ seen_ids = {}
    /\ fetched = << >>
    /\ requested = {}
    /\ request_error = None
    /\ rstate = "groups"
    /\ ResolveAlone

\* the merge of one source's projects, and the move to the next step
Merge(list, next, urls) ==
    LET acc == add_unseen([projects |-> resolved, seen |-> seen_ids], list)
    IN  /\ resolved' = acc.projects
        /\ seen_ids' = acc.seen
        /\ fetched' = Append(fetched, list)
        /\ rstate' = next
        /\ requested' = requested \cup urls
        /\ UNCHANGED <<scope_cmd, request_error, exceptResolve>>

Skip(next) ==
    /\ rstate' = next
    /\ UNCHANGED <<scope_cmd, resolved, seen_ids, fetched, request_error,
                   requested, exceptResolve>>

\* what the descendant requests of the groups can return
DescendantResults(groups) ==
    {d \in [1..Len(groups) -> {<< >>, <<SubGroup>>}] :
        \A k \in 1..Len(groups) : d[k] \in DescendantsOf(groups[k])}

\* fetch_projects_in_groups on the given groups, then the merge
FetchInGroups(groups, next, urls) ==
    \E descendant_results \in DescendantResults(groups) :
        LET all_groups == all_groups_of(groups, scope_cmd.recursive,
                                        descendant_results, scope_cmd.exclude_groups)
        IN  \E listings \in [1..Len(all_groups) -> Listings] :
                Merge(flatten_projects(listings), next,
                      urls \cup group_requests(groups, scope_cmd.recursive,
                                               descendant_results,
                                               scope_cmd.exclude_groups))

\* lines 170-181
ResolveGroups ==
    /\ rstate = "groups"
    /\ IF scope_cmd.groups # << >>
       THEN FetchInGroups(fetch_groups(scope_cmd.groups), "projects", {})
       ELSE Skip("projects")

\* lines 183-189: fetch_projects_by_ids, one request per reference
ResolveExplicit ==
    /\ rstate = "projects"
    /\ IF scope_cmd.projects # << >>
       THEN Merge([k \in 1..Len(scope_cmd.projects) |->
                      ProjectRefId(scope_cmd.projects[k])], "user",
                  project_requests(scope_cmd.projects))
       ELSE Skip("user")

\* lines 191-197
ResolveUser ==
    /\ rstate = "user"
    /\ IF scope_cmd.user # None
       THEN \E list \in Listings :
                Merge(list, "mine", {<<"user_projects", scope_cmd.user>>})
       ELSE Skip("mine")

\* lines 199-205
ResolveMine ==
    /\ rstate = "mine"
    /\ IF scope_cmd.my_projects
       THEN \E list \in Listings : Merge(list, "all", {<<"my_projects", None>>})
       ELSE Skip("all")

\* lines 207-219: nothing specified, all the groups of the server
ResolveAll ==
    /\ rstate = "all"
    /\ IF nothing_specified(scope_cmd)
       THEN \E n \in 0..Len(ServerGroups) :
                FetchInGroups(SubSeq(ServerGroups, 1, n), "exclude",
                              {<<"groups", None>>})
       ELSE Skip("exclude")

\* lines 221-227
ApplyExclusions ==
    /\ rstate = "exclude"
    /\ IF scope_cmd.exclude_projects # << >>
       THEN LET excluded == [k \in 1..Len(scope_cmd.exclude_projects) |->
                                ProjectRefId(scope_cmd.exclude_projects[k])]
            IN  /\ resolved' = without_excluded(resolved, excluded)
                /\ rstate' = "done"
                /\ requested' = requested
                                     \cup project_requests(scope_cmd.exclude_projects)
                /\ UNCHANGED <<scope_cmd, seen_ids, fetched, request_error,
                               exceptResolve>>
       ELSE Skip("done")

\* the step after a step of resolve_projects
step_after(step) ==
    CASE step = "groups" -> "projects"
      [] step = "projects" -> "user"
      [] step = "user" -> "mine"
      [] step = "mine" -> "all"
      [] step = "all" -> "exclude"
      [] step = "exclude" -> "done"

\* variant of on_request_error: the error is logged and the source skipped
on_request_error_Skip(step) == step_after(step)

\* response.raise_for_status() raises in _paginated_request or
\* fetch_project; no try / except in resolve_projects or execute_search
on_request_error(step) == "raised"

\* the steps in which the command makes resolve_projects send a request
Requesting ==
    \/ rstate = "groups" /\ scope_cmd.groups # << >>
    \/ rstate = "projects" /\ scope_cmd.projects # << >>
    \/ rstate = "user" /\ scope_cmd.user # None
    \/ rstate = "mine" /\ scope_cmd.my_projects
    \/ rstate = "all" /\ nothing_specified(scope_cmd)
    \/ rstate = "exclude" /\ scope_cmd.exclude_projects # << >>

\* the requests a step can have sent when one of them fails: gather starts
\* all the tasks of a fan-out together
SentByStep ==
    CASE rstate = "groups" ->
            {group_requests(fetch_groups(scope_cmd.groups), scope_cmd.recursive, d,
                            scope_cmd.exclude_groups) :
                d \in DescendantResults(fetch_groups(scope_cmd.groups))}
      [] rstate = "projects" -> {project_requests(scope_cmd.projects)}
      [] rstate = "user" -> {{<<"user_projects", scope_cmd.user>>}}
      [] rstate = "mine" -> {{<<"my_projects", None>>}}
      [] rstate = "all" ->
            {{<<"groups", None>>}}
            \cup UNION {{{<<"groups", None>>}
                           \cup group_requests(SubSeq(ServerGroups, 1, n),
                                               scope_cmd.recursive, d,
                                               scope_cmd.exclude_groups) :
                            d \in DescendantResults(SubSeq(ServerGroups, 1, n))} :
                        n \in 1..Len(ServerGroups)}
      [] rstate = "exclude" -> {project_requests(scope_cmd.exclude_projects)}

\* a request of the step fails: raise_for_status raises, and nothing in
\* resolve_projects catches it
ResolveFails ==
    /\ Requesting
    /\ rstate' = on_request_error(rstate)
    /\ \E urls \in SentByStep :
          /\ requested' = requested \cup urls
          /\ \E url \in urls :
                /\ url[1] # "descendant_groups"
                /\ request_error' = url
    /\ UNCHANGED <<scope_cmd, resolved, seen_ids, fetched, exceptResolve>>

\* execute_search, lines 402-407 and the loop over parsed.scope: with no
\* project it returns, else the searches send their requests
SearchResolved ==
    /\ rstate = "done"
    /\ IF resolved = << >>
       THEN /\ rstate' = "returned"
            /\ UNCHANGED requested
       ELSE /\ rstate' = "searching"
            /\ requested' = requested
                               \cup {<<"search", resolved[k]>> : k \in 1..Len(resolved)}
    /\ UNCHANGED <<scope_cmd, resolved, seen_ids, fetched, request_error,
                   exceptResolve>>

ResolveNext ==
    \/ ResolveGroups
    \/ ResolveExplicit
    \/ ResolveUser
    \/ ResolveMine
    \/ ResolveAll
    \/ ApplyExclusions
    \/ ResolveFails
    \/ SearchResolved

ResolveSpec == ResolveInit /\ [][ResolveNext]_vars

(***************************************************************************)
(* ClientSpec: the tasks of a fan-out (one per term and project, or one    *)
(* per listing) all created, each sending its requests through _request.   *)
(***************************************************************************)
Tasks == 1..MaxTasks

ClientInit ==
    /\ max_requests \in 0..MaxCeiling
    /\ sem_value = max_requests
    /\ waiters = << >>
    /\ tasks = [t \in Tasks |-> Ready(1)]
    /\ ClientAlone

\* `async with self.semaphore`: enter with a permit, or queue up
Acquire(t) ==
    /\ tasks[t].state = "ready"
    /\ IF locked(sem_value, waiters)
       THEN /\ waiters' = Append(waiters, t)
            /\ tasks' = [tasks EXCEPT ![t] = Waiting(@.page)]
            /\ UNCHANGED sem_value
       ELSE /\ sem_value' = sem_value - 1
            /\ tasks' = [tasks EXCEPT ![t] = InRequest(@.page)]
            /\ UNCHANGED waiters
    /\ UNCHANGED <<max_requests, exceptClient>>

\* a woken task goes on into the block: asyncio.to_thread(_request_sync)
Resume(t) ==
    /\ tasks[t].state = "granted"
    /\ tasks' = [tasks EXCEPT ![t] = InRequest(@.page)]
    /\ UNCHANGED <<max_requests, sem_value, waiters, exceptClient>>

\* the block is left with task t in state `after`
Leave(t, after) ==
    LET r == release(sem_value, waiters, [tasks EXCEPT ![t] = after])
    IN  /\ sem_value' = r.value
        /\ waiters' = r.queue
        /\ tasks' = r.all
        /\ UNCHANGED <<max_requests, exceptClient>>

\* the response is the last page, or the only one
RequestSucceeds(t) ==
    /\ tasks[t].state = "in_flight"
    /\ Leave(t, Finished(tasks[t].page))

\* the response names a next page: _paginated_request calls itself
RequestHasNextPage(t) ==
    /\ tasks[t].state = "in_flight"
    /\ tasks[t].page < MaxPages
    /\ Leave(t, Ready(tasks[t].page + 1))

\* the request raises
RequestRaises(t) ==
    /\ tasks[t].state = "in_flight"
    /\ Leave(t, TaskFailed(tasks[t].page))

ClientNext ==
    \E t \in Tasks :
        \/ Acquire(t)
        \/ Resume(t)
        \/ RequestSucceeds(t)
        \/ RequestHasNextPage(t)
        \/ RequestRaises(t)

ClientSpec == ClientInit /\ [][ClientNext]_vars

\* The event loop keeps running while a task can take a step: a new task
\* enters or queues, a woken waiter goes on, a request that was sent is
\* answered or fails.  A listing has at most MaxPages pages, so no task
\* steps forever and this is enough for every task to get its turn.
ClientFairness == WF_vars(ClientNext)

FairClientSpec == ClientSpec /\ ClientFairness

(***************************************************************************)
(* ExclSpec: one call of matches_exclusion.                                *)
(***************************************************************************)
\* the filenames a.c, b and c; no path, d/b or a.c
FileNames == {<<"a", ".", "c">>, <<"b">>, <<"c">>}
FilePaths == {<< >>, <<"d", "/", "b">>, <<"a", ".", "c">>}

\* a*, ? and *.c
FilenamePatterns == {<<"a", "*">>, <<"?">>, <<"*", ".", "c">>}
\* c and .c
ExtensionEntries == {<<"c">>, <<".", "c">>}
\* *b and d/*
PathPatterns == {<<"*", "b">>, <<"d", "/", "*">>}

ListsOf(entries) == UNION {[1..n -> entries] : n \in 0..MaxPatterns}

ExclusionCall(filename, path, attrs) ==
    [filename |-> filename, path |-> path, attrs |-> attrs]

NotCalled == [state |-> "pending", value |-> FALSE]
Answered(value) == [state |-> "returned", value |-> value]

ExclInit ==
    /\ exclusion_call \in
          {ExclusionCall(f, p, ExclusionAttributes(fs, es, ps)) :
              f \in FileNames, p \in FilePaths,
              fs \in ListsOf(FilenamePatterns), es \in ListsOf(ExtensionEntries),
              ps \in ListsOf(PathPatterns)}
    /\ exclusion = NotCalled
    /\ ExclAlone

MatchesExclusion ==
    /\ exclusion.state = "pending"
    /\ exclusion' = Answered(matches_exclusion(exclusion_call.filename,
                                               exclusion_call.path,
                                               exclusion_call.attrs.exclude_filenames,
                                               exclusion_call.attrs.exclude_extensions,
                                               exclusion_call.attrs.exclude_paths))
    /\ UNCHANGED <<exclusion_call, exceptExcl>>

ExclNext == MatchesExclusion

ExclSpec == ExclInit /\ [][ExclNext]_vars

(***************************************************************************)
(* PageSpec: one list or search operation of the client against a server   *)
(* that has one page or more for it.                                       *)
(***************************************************************************)
PageItems == {1, 2}
Pages == {<< >>} \cup {<<i>> : i \in PageItems}
ServerPages == UNION {[1..n -> Pages] : n \in 1..MaxPages}

PageInit ==
    /\ operation \in {Operation(name, pages) :
                         name \in Paginated \cup SingleRequest, pages \in ServerPages}
    /\ paging = PageReady(1, << >>)
    /\ PageAlone

\* `await self._request(url)`
SendRequest ==
    /\ paging.state = "ready"
    /\ paging' = PageInFlight(paging.page, paging.items)
    /\ UNCHANGED <<operation, exceptPage>>

\* the response arrives with status 200
PageArrives ==
    /\ paging.state = "in_flight"
    /\ paging' = after_response(operation, paging)
    /\ UNCHANGED <<operation, exceptPage>>

\* the request fails, or raise_for_status raises
PageFails ==
    /\ paging.state = "in_flight"
    /\ paging' = PageRaised(paging.page)
    /\ UNCHANGED <<operation, exceptPage>>

PageNext == SendRequest \/ PageArrives \/ PageFails

PageSpec == PageInit /\ [][PageNext]_vars

(***************************************************************************)
(* MapSpec: the loop of execute_blob_search (lines 282-290) or of          *)
(* execute_scope_search (lines 355-360) that builds the mapping of one     *)
(* term from what its requests returned.  The payloads are such that       *)
(* several of them share an identity: two matches in the file b, two       *)
(* payloads for the issue 1.                                               *)
(***************************************************************************)
MappedBlobs == {SearchResult(<<"b">>, 1), SearchResult(<<"b">>, 2),
                SearchResult(<<"a", ".", "c">>, 1)}
MappedIssues == {Issue(1, "x"), Issue(1, "y"), Issue(2, "y")}
PayloadLists(payloads) == UNION {[1..n -> payloads] : n \in 0..MaxPayloads}

MappingPending == [state |-> "pending", value |-> << >>]
MappingBuilt(value) == [state |-> "built", value |-> value]

MapInit ==
    /\ mapped_scope \in {"blobs", "issues"}
    /\ \E lists \in [ProjectIds ->
                        PayloadLists(IF mapped_scope = "blobs" THEN MappedBlobs
                                     ELSE MappedIssues)] :
          raw_results = [r \in {<<"a", p>> : p \in ProjectIds} |->
                            Responded(lists[r[2]])]
    /\ term_mapping = MappingPending
    /\ MapAlone

\* execute_blob_search, lines 282-290, for the query a
BuildBlobMapping ==
    /\ mapped_scope = "blobs"
    /\ term_mapping.state = "pending"
    /\ term_mapping' = MappingBuilt(
           build_mapping(search_blobs_in_projects(
                             [p \in ProjectIds |-> p], raw_results, "a"), << >>))
    /\ UNCHANGED <<mapped_scope, raw_results, exceptMap>>

\* execute_scope_search, lines 355-360, for the query a
BuildScopeMapping ==
    /\ mapped_scope # "blobs"
    /\ term_mapping.state = "pending"
    /\ term_mapping' = MappingBuilt(
           build_scope_mapping(search_scope_in_projects(
                                   [p \in ProjectIds |-> p], raw_results, "a"),
                               << >>, mapped_scope))
    /\ UNCHANGED <<mapped_scope, raw_results, exceptMap>>

MapNext == BuildBlobMapping \/ BuildScopeMapping

MapSpec == MapInit /\ [][MapNext]_vars

(***************************************************************************)
(* GatherSpec: execute_blob_search with the server's answers fixed and the *)
(* completion order of the requests recorded.  The task of a query is over *)
(* when the last of its requests is back; both gathers (executor.py line   *)
(* 280, gitlab.py line 474) hand each list of results on through gather.   *)
(***************************************************************************)
GatherTrees ==
    {QueryNode("a"), NotNode(QueryNode("a"), {}),
     OrNode(QueryNode("a"), QueryNode("b")),
     AndNode(QueryNode("a"), NotNode(QueryNode("b"), {}))}

exceptBlobAndGather ==
    <<evalVars, parseVars, tokVars, cmdVars, resolveVars, clientVars, exclVars,
      pageVars, mapVars>>

GatherInit ==
    /\ expression \in GatherTrees
    /\ all_queries = get_all_queries(expression)
    /\ projects \in ProjectLists
    /\ answers \in [Requests -> HitLists]
    /\ arrived = << >>
    /\ responses = << >>
    /\ sent = << >>
    /\ search = SearchIdle
    /\ scope = "blobs"
    /\ search_criteria = SearchCriteria(<< >>, << >>, << >>)
    /\ output = NoOutput
    /\ EvalIdle /\ ParseIdle /\ TokIdle /\ CmdIdle /\ ResolveIdle /\ ClientIdle
    /\ ExclIdle /\ PageIdle /\ MapIdle

\* a request completes with the server's answer
RequestCompletes ==
    /\ search.state = "running"
    /\ \E r \in DOMAIN responses :
          /\ responses[r].state = "pending"
          /\ responses' = [responses EXCEPT ![r] = Responded(answers[r])]
          /\ arrived' = Append(arrived, r)
    /\ UNCHANGED <<expression, all_queries, projects, sent, search, scope,
                   search_criteria, output, answers, exceptBlobAndGather>>

\* the position at which the last request of a query completed
CompletedAt(q) ==
    CHOOSE k \in 1..Len(arrived) :
        arrived[k][1] = q /\ \A j \in (k + 1)..Len(arrived) : arrived[j][1] # q

\* the projects of a query's requests, and the queries, in completion order
ProjectsAsCompleted(q) ==
    LET own == SelectSeq(arrived, LAMBDA r : r[1] = q)
    IN  [k \in 1..Len(own) |-> own[k][2]]

QueriesAsCompleted ==
    SortSeq(all_queries, LAMBDA q1, q2 : CompletedAt(q1) < CompletedAt(q2))

\* every request is back: lines 280-321 on what the two gathers return
GatherAssemble ==
    /\ search.state = "running"
    /\ gathered(responses)
    /\ LET query_results ==
               [q \in QuerySet(all_queries) |->
                   build_mapping(
                       search_blobs_in_projects(
                           gather(projects, ProjectsAsCompleted(q)), responses, q),
                       << >>)]
           query_results_list == gather(all_queries, QueriesAsCompleted)
           id_sets == id_sets_of(query_results)
           tree == set_universe(expression, universe_of(id_sets))
           matching == evaluate(tree, id_sets)
       IN  /\ expression' = tree
           /\ search' = IF matching.state = "raised" THEN SearchRaised("ValueError")
                        ELSE SearchReturned(collect(query_results_list, query_results,
                                                    matching.value, << >>))
    /\ UNCHANGED <<all_queries, projects, responses, sent, scope, search_criteria,
                   output, answers, arrived, exceptBlobAndGather>>

GatherNext == StartSearch \/ RequestCompletes \/ GatherAssemble

GatherSpec == GatherInit /\ [][GatherNext]_vars

(***************************************************************************)
(* Properties of the evaluator (EvalSpec)                                  *)
(***************************************************************************)
\* x is in the value of node, by the truth table of the connectives
RECURSIVE Sat(_, _, _)
Sat(node, res, x) ==
    CASE node.type = "Query" -> node.query \in DOMAIN res /\ x \in res[node.query]
      [] node.type = "And" -> Sat(node.left, res, x) /\ Sat(node.right, res, x)
      [] node.type = "Or" -> Sat(node.left, res, x) \/ Sat(node.right, res, x)
      [] node.type = "Not" -> x \in node.universe /\ ~Sat(node.child, res, x)

\* C2: for every child, every result dict and every universe U assigned to
\* the tree, evaluating Not(child) returns U minus the child's value (empty
\* when the child's value is U, U when the child's value is empty).
C2_NotIsComplement ==
    (outcome.state # "pending" /\ assigned /\ expr.type = "Not" /\ ~HasNot(expr.child))
        => /\ outcome = Returned(expr.universe \ evaluate(expr.child, results).value)
           /\ (evaluate(expr.child, results).value = expr.universe => outcome.value = {})
           /\ (evaluate(expr.child, results).value = {} => outcome.value = expr.universe)

\* C3: a tree of Query, And and Or nodes evaluates to the set-algebra value:
\* the set mapped to a term (empty when the term is absent), intersection
\* for And, union for Or.
C3_SetAlgebra ==
    (outcome.state # "pending" /\ ~HasNot(expr))
        => /\ outcome = Returned({x \in Ids : Sat(expr, results, x)})
           /\ (expr.type = "Query" /\ expr.query \notin DOMAIN results
                  => outcome.value = {})
           /\ (expr.type = "Query" /\ expr.query \in DOMAIN results
                  => outcome.value = results[expr.query])

C3_Witness ==
    /\ outcome.state = "returned"
    /\ expr.type = "Or"
    /\ expr.left.type = "And"
    /\ expr.right.type = "Query"
    /\ expr.right.query \notin DOMAIN results
    /\ outcome.value = {1}

(***************************************************************************)
(* Properties of the parser (ParseSpec)                                    *)
(***************************************************************************)
RECURSIVE Subtrees(_)
Subtrees(node) ==
    CASE node.type = "Not" -> {node} \cup Subtrees(node.child)
      [] node.type \in {"And", "Or"} ->
            {node} \cup Subtrees(node.left) \cup Subtrees(node.right)
      [] OTHER -> {node}

NoParens(toks) == \A k \in 1..Len(toks) : toks[k].type \notin {"LPAREN", "RPAREN"}

\* the token types of a stream, and the query node of its k-th token
Shape(toks) == [k \in 1..Len(toks) |-> toks[k].type]
Leaf(k) == QueryNode(tokens[k].value)

\* C5: OR has lower precedence than AND: a AND b OR c, the AND explicit or
\* implicit, parses to Or(And(a,b), c) for all terms a, b, c; without
\* parentheses no And node has an Or node below it.
C5_OrBelowAnd ==
    parsed.state # "pending" =>
        /\ Shape(tokens) = <<"QUERY", "AND", "QUERY", "OR", "QUERY", "EOF">>
              => /\ parsed.state = "tree"
                 /\ parsed.node = OrNode(AndNode(Leaf(1), Leaf(3)), Leaf(5))
        /\ Shape(tokens) = <<"QUERY", "QUERY", "OR", "QUERY", "EOF">>
              => /\ parsed.state = "tree"
                 /\ parsed.node = OrNode(AndNode(Leaf(1), Leaf(2)), Leaf(4))
        /\ (parsed.state = "tree" /\ NoParens(tokens))
              => \A n \in Subtrees(parsed.node) :
                    n.type = "And" => \A m \in Subtrees(n) : m.type # "Or"

C5_Witness ==
    /\ parsed.state = "tree"
    /\ tokens = <<Q("a"), Q("b"), OR, Q("a"), EOF>>

\* C6: NOT binds tighter than AND and OR: NOT a AND b parses to
\* And(Not(a), b); a NOT negates only the primary that follows it, a query
\* or a parenthesised group.
C6_NotBindsTightest ==
    parsed.state # "pending" =>
        /\ Shape(tokens) = <<"NOT", "QUERY", "AND", "QUERY", "EOF">>
              => /\ parsed.state = "tree"
                 /\ parsed.node = AndNode(NotNode(Leaf(2), {}), Leaf(4))
        /\ Shape(tokens) = <<"NOT", "QUERY", "QUERY", "EOF">>
              => /\ parsed.state = "tree"
                 /\ parsed.node = AndNode(NotNode(Leaf(2), {}), Leaf(3))
        /\ Shape(tokens) = <<"NOT", "QUERY", "OR", "QUERY", "EOF">>
              => /\ parsed.state = "tree"
                 /\ parsed.node = OrNode(NotNode(Leaf(2), {}), Leaf(4))
        /\ Shape(tokens) = <<"NOT", "LPAREN", "QUERY", "QUERY", "RPAREN", "QUERY", "EOF">>
              => /\ parsed.state = "tree"
                 /\ parsed.node =
                        AndNode(NotNode(AndNode(Leaf(3), Leaf(4)), {}), Leaf(6))
        /\ (parsed.state = "tree" /\ NoParens(tokens))
              => \A n \in Subtrees(parsed.node) :
                    n.type = "Not" => n.child.type = "Query"

C6_Witness ==
    /\ parsed.state = "tree"
    /\ tokens = <<NOT, Q("a"), AND, Q("b"), EOF>>

\* tokens i and j are a matching pair of parentheses
Opens(toks, i, j) == Cardinality({k \in i..j : toks[k].type = "LPAREN"})
Closes(toks, i, j) == Cardinality({k \in i..j : toks[k].type = "RPAREN"})
Matching(toks, i, j) ==
    /\ i < j
    /\ toks[i].type = "LPAREN"
    /\ toks[j].type = "RPAREN"
    /\ Opens(toks, i + 1, j - 1) = Closes(toks, i + 1, j - 1)
    /\ \A k \in (i + 1)..(j - 1) : Opens(toks, i + 1, k) >= Closes(toks, i + 1, k)

Grouped(toks, i, j) == SubSeq(toks, i + 1, j - 1) \o <<EOF>>

\* C7: parentheses override precedence: ( a OR b ) c parses to
\* And(Or(a,b), c), not to the tree of a OR ( b AND c ), and every
\* parenthesised group is one subtree of the result.
C7_ParenthesesGroup ==
    parsed.state # "pending" =>
        /\ Shape(tokens) = <<"LPAREN", "QUERY", "OR", "QUERY", "RPAREN", "QUERY", "EOF">>
              => /\ parsed.state = "tree"
                 /\ parsed.node = AndNode(OrNode(Leaf(2), Leaf(4)), Leaf(6))
                 /\ parsed # parse(<<tokens[2], OR, LPAREN, tokens[4], AND, tokens[6],
                                     RPAREN, EOF>>)
        /\ Shape(tokens) = <<"QUERY", "OR", "LPAREN", "QUERY", "AND", "QUERY", "RPAREN", "EOF">>
              => /\ parsed.state = "tree"
                 /\ parsed.node = OrNode(Leaf(1), AndNode(Leaf(4), Leaf(6)))
        /\ Shape(tokens) = <<"QUERY", "OR", "LPAREN", "QUERY", "QUERY", "RPAREN", "EOF">>
              => /\ parsed.state = "tree"
                 /\ parsed.node = OrNode(Leaf(1), AndNode(Leaf(4), Leaf(5)))
        /\ (parsed.state = "tree" /\ ~NoParens(tokens))
              => \A i, j \in 1..Len(tokens) :
                    Matching(tokens, i, j)
                       => /\ parse(Grouped(tokens, i, j)).state = "tree"
                          /\ parse(Grouped(tokens, i, j)).node \in Subtrees(parsed.node)

C7_Witness ==
    /\ parsed.state = "tree"
    /\ tokens = <<LPAREN, Q("a"), OR, Q("b"), RPAREN, Q("a"), EOF>>

\* the stream is q sep q sep ... q EOF with at least two queries
IsChain(toks, sep) ==
    /\ Len(toks) >= 4
    /\ Len(toks) % 2 = 0
    /\ \A k \in 1..(Len(toks) - 1) :
          toks[k].type = (IF k % 2 = 1 THEN "QUERY" ELSE sep)

\* the stream is q q ... q EOF with at least two queries
IsJuxtaposition(toks) ==
    /\ Len(toks) >= 3
    /\ \A k \in 1..(Len(toks) - 1) : toks[k].type = "QUERY"

RECURSIVE LeftNest(_, _, _, _)
LeftNest(kind, toks, step, n) ==
    IF n = 1 THEN QueryNode(toks[1].value)
    ELSE [type |-> kind,
          left |-> LeftNest(kind, toks, step, n - 1),
          right |-> QueryNode(toks[1 + step * (n - 1)].value)]

\* C8: AND and OR are left-associative: x1 OR x2 OR ... OR xn parses to
\* Or(...Or(Or(x1,x2),x3)...,xn), and a chain of explicit or implicit ANDs
\* nests to the left in the same way.
C8_LeftAssociative ==
    parsed.state # "pending" =>
        /\ IsChain(tokens, "OR")
              => /\ parsed.state = "tree"
                 /\ parsed.node = LeftNest("Or", tokens, 2, Len(tokens) \div 2)
        /\ IsChain(tokens, "AND")
              => /\ parsed.state = "tree"
                 /\ parsed.node = LeftNest("And", tokens, 2, Len(tokens) \div 2)
        /\ IsJuxtaposition(tokens)
              => /\ parsed.state = "tree"
                 /\ parsed.node = LeftNest("And", tokens, 1, Len(tokens) - 1)
        /\ (parsed.state = "tree" /\ NoParens(tokens))
              => \A n \in Subtrees(parsed.node) :
                    n.type \in {"And", "Or"} => n.right.type # n.type

C8_Witness ==
    /\ parsed.state = "tree"
    /\ tokens = <<Q("a"), OR, Q("b"), OR, Q("a"), EOF>>

(***************************************************************************)
(* Properties of the tokenizer (TokSpec)                                   *)
(***************************************************************************)
NotArgs == {<<"-not">>, <<"!">>}
LastOf(seq) == seq[Len(seq)]
NotCount(toks) == Cardinality({k \in 1..Len(toks) : toks[k].type = "NOT"})

\* this step ran one loop iteration on flag (with a value), without error,
\* and the argument just before it was -not or !
ReadsAfterNot(flags) ==
    /\ tstate = "running"
    /\ tstate' = "running"
    /\ Len(args') = Len(args) + 1
    /\ Len(LastOf(args')) = 2
    /\ LastOf(args')[1] \in flags
    /\ Len(args) > 0
    /\ LastOf(args) \in NotArgs

C9_Step(flags, incl, excl) ==
    ReadsAfterNot(flags)
        => /\ result'[excl] = result[excl] \o CommaSplit(LastOf(args')[2])
           /\ result'[incl] = result[incl]
           /\ LastOf(result.tokens).type = "NOT"
           /\ result'.tokens = Pop(result.tokens)

C9_Example ==
    /\ \A n \in NotArgs :
          (tstate = "done"
           /\ args = << <<"-g", "x">>, n, <<"-g", "y,z">>, <<"-q", "x">> >>)
             => /\ result.groups = <<"x">>
                /\ result.exclude_groups = <<"y", "z">>
                /\ NotCount(result.tokens) = 0
                /\ result.tokens = <<Q("x"), EOF>>
    /\ \A n \in NotArgs :
          (tstate = "done"
           /\ args = << <<"-g", "x">>, n, <<"-p", "y,z">>, <<"-q", "x">> >>)
             => /\ result.groups = <<"x">>
                /\ result.projects = << >>
                /\ result.exclude_projects = <<"y", "z">>
                /\ NotCount(result.tokens) = 0

\* C9: -g or -p right after a NOT (-not or !) appends its comma-split value
\* to exclude_groups / exclude_projects, not to groups / projects, and
\* removes that NOT token: -g grp1 ! -g grp2 -q term gives groups=[grp1],
\* exclude_groups=[grp2] and no NOT token.
C9_ExclusionConsumesNot ==
    [][/\ C9_Step({"-g", "--groups"}, "groups", "exclude_groups")
       /\ C9_Step({"-p", "--projects"}, "projects", "exclude_projects")
       /\ C9_Example']_vars

C9_Witness ==
    /\ tstate = "done"
    /\ args = << <<"-g", "x">>, <<"!">>, <<"-g", "y,z">>, <<"-q", "x">> >>
    /\ result.exclude_groups = <<"y", "z">>

C10_Step(flags, incl, excl) ==
    ReadsAfterNot(flags)
        => /\ excl \in DOMAIN result'
           /\ excl \in DOMAIN result
           /\ result'[excl] = Append(result[excl], LastOf(args')[2])
           /\ result'[incl] = result[incl]
           /\ result'.tokens = Pop(result.tokens)

\* C10: -f, -e or -P right after a NOT appends its value to
\* exclude_filenames / exclude_extensions / exclude_paths, leaves filename /
\* extension / path unchanged and removes that NOT token; several such
\* exclusions accumulate in argument order.
C10_FilterExclusion ==
    [][/\ C10_Step({"-f", "--filename"}, "filename", "exclude_filenames")
       /\ C10_Step({"-e", "--extension"}, "extension", "exclude_extensions")
       /\ C10_Step({"-P", "--path"}, "path", "exclude_paths")]_vars

(***************************************************************************)
(* Properties of the blob search (BlobSpec)                                *)
(***************************************************************************)
\* the files of project p that term q matched
FilesMatched(q, p) ==
    IF <<q, p>> \in DOMAIN responses
    THEN {responses[<<q, p>>].hits[k].filename :
             k \in 1..Len(responses[<<q, p>>].hits)}
    ELSE {}

\* the projects of the returned result
ReturnedProjects == {search.value[k].project : k \in 1..Len(search.value)}

a_AND_b == AndNode(QueryNode("a"), QueryNode("b"))
a_OR_b == OrNode(QueryNode("a"), QueryNode("b"))

\* project 1 matches only a, project 2 matches a and b, and the search is over
Scenario ==
    /\ search.state = "returned"
    /\ FilesMatched("a", 1) # {}
    /\ FilesMatched("b", 1) = {}
    /\ FilesMatched("a", 2) # {}
    /\ FilesMatched("b", 2) # {}

\* C1 as stated: whenever project 1 has blobs matching only a and project 2
\* has blobs matching a and blobs matching b, the search a AND b returns
\* project 2 alone and the search a OR b returns projects 1 and 2.
C1_ProjectsOfAndOr ==
    Scenario =>
        /\ (expression = a_AND_b => ReturnedProjects = {2})
        /\ (expression = a_OR_b => ReturnedProjects = {1, 2})

\* C1 amended: identities are files.  With project 1 matching only a and
\* project 2 matching both: a AND b returns project 2 alone when one file of
\* project 2 matches both terms and returns nothing when no file does;
\* a OR b returns projects 1 and 2.
C1_FilesOfAndOr ==
    Scenario =>
        /\ (expression = a_AND_b =>
               ReturnedProjects =
                   IF FilesMatched("a", 2) \cap FilesMatched("b", 2) # {}
                   THEN {2} ELSE {})
        /\ (expression = a_OR_b => ReturnedProjects = {1, 2})

C1_Witness ==
    /\ Scenario
    /\ expression = a_AND_b
    /\ FilesMatched("a", 2) \cap FilesMatched("b", 2) # {}
    /\ ReturnedProjects = {2}

\* C4: the search NOT a, once every request for a is back, returns the
\* empty result, whatever a matched (nothing included).
C4_NotAloneIsEmpty ==
    ( /\ expression.type = "Not"
      /\ expression.child = QueryNode("a")
      /\ search.state \in {"returned", "raised"}
      /\ \A r \in DOMAIN responses : responses[r].state = "ok" )
    => search = SearchReturned(<< >>)

(***************************************************************************)
(* Properties of get_all_queries (CmdSpec)                                 *)
(***************************************************************************)
\* the terms at the leaves of a tree, read from left to right
RECURSIVE Reading(_)
Reading(node) ==
    CASE node = NoneNode -> << >>
      [] node.type = "Query" -> <<node.query>>
      [] node.type = "Not" -> Reading(node.child)
      [] OTHER -> Reading(node.left) \o Reading(node.right)

\* the position of the first occurrence of term q in a reading
FirstAt(reading, q) ==
    CHOOSE k \in 1..Len(reading) :
        reading[k] = q /\ \A j \in 1..(k - 1) : reading[j] # q

\* C12: get_all_queries lists every term of the expression exactly once, in
\* the order of the terms' first occurrences in the left-to-right reading
\* of the tree, and returns the empty list when there is no expression.
C12_DistinctTermsInOrder ==
    query_list.state = "returned" =>
        LET reading == Reading(command.query_expression)
            list == query_list.value
        IN  /\ {list[k] : k \in 1..Len(list)} = {reading[k] : k \in 1..Len(reading)}
            /\ \A i, j \in 1..Len(list) : i # j => list[i] # list[j]
            /\ \A i, j \in 1..Len(list) :
                   i < j => FirstAt(reading, list[i]) < FirstAt(reading, list[j])
            /\ (command.query_expression = NoneNode => list = << >>)

C12_Witness ==
    /\ command.query_expression =
           AndNode(AndNode(QueryNode("a"), QueryNode("a")), QueryNode("a"))
    /\ query_list = QueriesReturned(<<"a">>)

(***************************************************************************)
(* Properties of parse on streams without queries and on malformed streams *)
(* (ParseSpec)                                                             *)
(***************************************************************************)
\* the tokens before the EOF
Body(toks) == SubSeq(toks, 1, Len(toks) - 1)

NoQuery(toks) == \A k \in 1..Len(toks) : toks[k].type # "QUERY"

\* C15: once parse has run on a stream without a QUERY token, it has
\* returned None: no tree and no ParseError.
C15_NoQueryNoExpression ==
    (parsed # NotParsed /\ NoQuery(tokens)) => parsed = NoExpression

C15_Witness ==
    /\ tokens = <<LPAREN, AND, EOF>>
    /\ parsed = NoExpression

\* The grammar of expressions, as a recognizer of the tokens i..j of a stream:
\*   expr := term (OR term)*        term := factor ([AND] factor)*
\*   factor := [NOT] primary        primary := QUERY | ( expr )
RECURSIVE IsExpr(_, _, _), IsTerm(_, _, _)
IsPrimary(toks, i, j) ==
    \/ i = j /\ toks[i].type = "QUERY"
    \/ /\ i + 1 < j
       /\ toks[i].type = "LPAREN"
       /\ toks[j].type = "RPAREN"
       /\ IsExpr(toks, i + 1, j - 1)

IsFactor(toks, i, j) ==
    \/ IsPrimary(toks, i, j)
    \/ i < j /\ toks[i].type = "NOT" /\ IsPrimary(toks, i + 1, j)

IsTerm(toks, i, j) ==
    \/ IsFactor(toks, i, j)
    \/ \E k \in i..(j - 1) :
          /\ \/ IsFactor(toks, k + 1, j)
             \/ toks[k + 1].type = "AND" /\ k + 1 < j /\ IsFactor(toks, k + 2, j)
          /\ IsTerm(toks, i, k)

IsExpr(toks, i, j) ==
    \/ IsTerm(toks, i, j)
    \/ \E k \in i..(j - 2) :
          /\ toks[k + 1].type = "OR"
          /\ IsTerm(toks, k + 2, j)
          /\ IsExpr(toks, i, k)

\* a stream with tokens that do not form one complete expression
Mismatch(toks) ==
    /\ Len(toks) > 1
    /\ ~IsExpr(toks, 1, Len(toks) - 1)

\* C16 as stated: parse fails with a ParseError on every stream with a
\* structural mismatch.
C16_MismatchFails ==
    (parsed # NotParsed /\ Mismatch(tokens)) => parsed.state = "error"

\* C16 amended: parse fails with a ParseError on every stream that has a
\* QUERY token and a structural mismatch; a stream with a mismatch and no
\* QUERY token gives None; in both cases no tree is returned.
C16_MismatchWithQueryFails ==
    (parsed # NotParsed /\ Mismatch(tokens)) =>
        IF NoQuery(tokens) THEN parsed = NoExpression ELSE parsed.state = "error"

C16_Witness ==
    /\ tokens = <<LPAREN, Q("a"), EOF>>
    /\ parsed.state = "error"

(***************************************************************************)
(* Properties of tokenize_args: errors, the token stream, -r (TokSpec)     *)
(***************************************************************************)
\* the flags that stand alone and the flags that read the next argument
StandAlone ==
    {"-a", "-o", "-not", "!", "(", ")", "--my-projects", "--ignore-cert",
     "--debug", "--setup"}
TakesValue ==
    {"-q", "-g", "--groups", "-p", "--projects", "-u", "--user", "-s", "--scope",
     "-f", "--filename", "-e", "--extension", "-P", "--path", "--archived",
     "--api-url", "--max-requests", "--token", "--color", "--dir"}

\* an unrecognised flag, a bare positional, or a flag left without its value
Rejected(unit) ==
    \/ unit[1] \notin StandAlone \cup TakesValue
    \/ unit[1] \in TakesValue /\ Len(unit) = 1

\* C17: once tokenize_args has read an unrecognised flag, a positional
\* argument or a value-taking flag that is the last argument, it has failed
\* with a ParseError, and it never returns a result for such a list.
C17_BadArgumentFails ==
    (\E k \in 1..Len(args) : Rejected(args[k])) => tstate = "error"

C17_Witness ==
    /\ args = << <<"-q", "x">>, <<"-u">> >>
    /\ tstate = "error"

\* the token of one argument unit, none for an option
TokenOf(unit) ==
    CASE unit[1] = "-q" -> <<Token("QUERY", unit[2])>>
      [] unit[1] = "-a" -> <<Token("AND", None)>>
      [] unit[1] = "-o" -> <<Token("OR", None)>>
      [] unit \in NotArgs -> <<Token("NOT", None)>>
      [] unit[1] = "(" -> <<Token("LPAREN", None)>>
      [] unit[1] = ")" -> <<Token("RPAREN", None)>>
      [] OTHER -> << >>

\* a NOT is consumed when a group or project selector follows it directly
Consumed(units, k) ==
    /\ units[k] \in NotArgs
    /\ k < Len(units)
    /\ units[k + 1][1] \in {"-g", "--groups", "-p", "--projects"}

RECURSIVE ExpressionTokens(_, _)
ExpressionTokens(units, k) ==
    IF k > Len(units) THEN << >>
    ELSE (IF Consumed(units, k) THEN << >> ELSE TokenOf(units[k]))
         \o ExpressionTokens(units, k + 1)

C20_RecursiveAccepted ==
    (\E k \in 1..Len(args) : args[k][1] \in {"-r", "--recursive"}) =>
        /\ tstate # "error"
        /\ "recursive" \in DOMAIN result
        /\ result.recursive

(***************************************************************************)
(* Property of the evaluator without the universe pass (EvalSpec)          *)
(***************************************************************************)
\* C18: when no universe was assigned, evaluating a Not node, or a tree
\* with a Not node in it, raises instead of returning a set.
C18_NotWithoutUniverseRaises ==
    (outcome # Pending /\ ~assigned /\ HasNot(expr)) => outcome = Raised

C18_Witness ==
    /\ ~assigned
    /\ expr = NotNode(QueryNode("a"), {})
    /\ "a" \in DOMAIN results
    /\ results["a"] # {}
    /\ outcome = Raised

(***************************************************************************)
(* Properties of resolve_projects (ResolveSpec)                            *)
(***************************************************************************)
\* the projects the sources returned so far, in source order
Sourced == concat(fetched)

Elements(list) == {list[k] : k \in 1..Len(list)}

ExcludedIds ==
    {ProjectRefId(scope_cmd.exclude_projects[k]) :
        k \in 1..Len(scope_cmd.exclude_projects)}

\* C11: at every step of resolve_projects and in the list it returns, no two
\* projects share an id, and the projects stand in the order of their first
\* occurrences over the sources (groups, explicit projects, user projects,
\* own projects); before the exclusion pass the list has every project a
\* source returned, after it every such project that is not excluded.
C11_ResolvedOnceInFirstSeenOrder ==
    /\ \A i, j \in 1..Len(resolved) : i # j => resolved[i] # resolved[j]
    /\ \A i, j \in 1..Len(resolved) :
           i < j => FirstAt(Sourced, resolved[i]) < FirstAt(Sourced, resolved[j])
    /\ Elements(resolved) =
           IF rstate \in {"done", "searching", "returned"}
           THEN Elements(Sourced) \ ExcludedIds
           ELSE Elements(Sourced)

C11_Witness ==
    /\ rstate = "done"
    /\ scope_cmd.groups = <<"g1">>
    /\ scope_cmd.projects = <<"1">>
    /\ fetched = << <<2, 1>>, <<1>> >>
    /\ resolved = <<2, 1>>

(***************************************************************************)
(* Property of the request ceiling (ClientSpec)                            *)
(***************************************************************************)
InFlightTasks == {t \in DOMAIN tasks : tasks[t].state = "in_flight"}

\* C14: at every moment at most max_requests requests are in flight, with
\* tasks of the fan-out and pagination follow-ups alike.
C14_InFlightAtMostCeiling == Cardinality(InFlightTasks) <= max_requests

C14_Witness ==
    /\ max_requests = 2
    /\ Cardinality(InFlightTasks) = 2
    /\ waiters # << >>
    /\ \E t \in InFlightTasks : tasks[t].page = 2

\* C13: in the output of every scope each listed project has at least one
\* result: a project without a matching result, before or after the
\* exclusion pass, is not listed at all
C13_ListedProjectsHaveResults ==
    /\ search.state = "returned" =>
          \A k \in 1..Len(search.value) : search.value[k].list # << >>
    /\ output.state = "printed" =>
          \A k \in 1..Len(output.value) : output.value[k].list # << >>

\* two projects had results, the exclusion pass left nothing of one of
\* them, and the output lists the other one only
C13_Witness ==
    /\ output.state = "printed"
    /\ Len(search.value) = 2
    /\ Len(output.value) = 1

(***************************************************************************)
(* Properties of the exclusion test (ExclSpec)                             *)
(***************************************************************************)
\* the characters of name that the first k pattern characters take up
RECURSIVE Taken(_, _)
Taken(take, k) == IF k = 0 THEN 0 ELSE Taken(take, k - 1) + take[k]

\* name matches the wildcard pattern: name can be cut into one piece per
\* pattern character, any piece for "*", one character for "?", and the
\* character itself for any other
Wildcard(name, pattern) ==
    \E take \in [1..Len(pattern) -> 0..Len(name)] :
        /\ Taken(take, Len(pattern)) = Len(name)
        /\ \A k \in 1..Len(pattern) :
              /\ pattern[k] # "*" => take[k] = 1
              /\ pattern[k] \notin {"*", "?"} =>
                    name[Taken(take, k - 1) + 1] = pattern[k]

Dotted(ext) == IF ext # << >> /\ ext[1] = "." THEN ext ELSE <<".">> \o ext

Suffix(name, tail) == \E n \in 0..Len(name) : SubSeq(name, n + 1, Len(name)) = tail

\* C21: matches_exclusion returns true exactly when the filename matches one
\* of the excluded filename patterns, or ends with one of the excluded
\* extensions (the dot added when the entry has none), or the path (the
\* filename when there is no path) matches one of the excluded path
\* patterns; with three empty lists it returns false
C21_ExcludedIffSomeEntryMatches ==
    exclusion.state = "returned" =>
        LET c == exclusion_call
            a == c.attrs
            where == IF c.path = << >> THEN c.filename ELSE c.path
        IN  /\ exclusion.value
                 <=> \/ \E k \in 1..Len(a.exclude_filenames) :
                           Wildcard(c.filename, a.exclude_filenames[k])
                     \/ \E k \in 1..Len(a.exclude_extensions) :
                           Suffix(c.filename, Dotted(a.exclude_extensions[k]))
                     \/ \E k \in 1..Len(a.exclude_paths) :
                           Wildcard(where, a.exclude_paths[k])
            /\ (a.exclude_filenames = << >> /\ a.exclude_extensions = << >>
                    /\ a.exclude_paths = << >>) => ~exclusion.value

\* the file b without a path is excluded by the path pattern *b alone
C21_Witness ==
    /\ exclusion.state = "returned"
    /\ exclusion.value
    /\ exclusion_call.filename = <<"b">>
    /\ exclusion_call.path = << >>
    /\ exclusion_call.attrs.exclude_filenames = << >>
    /\ exclusion_call.attrs.exclude_extensions = << >>
    /\ exclusion_call.attrs.exclude_paths = << <<"*", "b">> >>

(***************************************************************************)
(* Properties of the searches (SearchSpec, BlobSpec, ScopeSpec)            *)
(***************************************************************************)
\* C22: whatever the requests of a blob search or a scope search return,
\* nothing found for any term included, the evaluation after the universe
\* pass does not raise the missing-universe ValueError
C22_NoMissingUniverseError ==
    ~(search.state = "raised" /\ search.error = "ValueError")

\* C23: a request that fails during a blob search or a scope search counts
\* as no results for its project, and the search does not end in error
C23_FailedRequestIsNoError ==
    ~(search.state = "raised" /\ search.error = "HTTPError")

(***************************************************************************)
(* Properties of the list and search operations (PageSpec)                 *)
(***************************************************************************)
RECURSIVE AllPages(_)
AllPages(pages) == IF pages = << >> THEN << >> ELSE Head(pages) \o AllPages(Tail(pages))

\* C24: every list and search operation returns the concatenation of all
\* the pages the server has for it, blob search and scope search included
C24_ReturnsAllPages ==
    paging.state = "returned" => paging.items = AllPages(operation.pages)

\* the universes on the Not nodes of a tree
RECURSIVE Universes(_)
Universes(node) ==
    CASE node.type = "Not" -> {node.universe} \cup Universes(node.child)
      [] node.type \in {"And", "Or"} -> Universes(node.left) \cup Universes(node.right)
      [] OTHER -> {}

\* the identities of everything the requests of this scope returned
ThisScope ==
    UNION {{ScopeResultIdentifier(r[2], responses[r].hits[k].iid, scope) :
               k \in 1..Len(responses[r].hits)} : r \in DOMAIN responses}

\* C25: once a scope's search has evaluated the tree, every Not node holds
\* the union of the identity sets of that scope's own requests, also when
\* an earlier scope had left its universe on the tree
C25_UniverseOfThisScope ==
    (search.state = "returned" \/ (search.state = "raised" /\ search.error = "ValueError"))
        => \A u \in Universes(expression) : u = ThisScope

\* an issues search has evaluated a tree that the blobs scope had used
\* before, and its Not node holds identities of issues
C25_Witness ==
    /\ search.state = "returned"
    /\ output.state = "printed"
    /\ Universes(expression) # {}
    /\ \A u \in Universes(expression) :
          u # {} /\ \A x \in u : x.item_type = "issues"

\* the tree has been evaluated: the search returned for some query, or the
\* evaluation itself raised
Evaluated ==
    \/ search.state = "returned" /\ all_queries # << >>
    \/ search.state = "raised" /\ search.error = "ValueError"

\* C26: the tree is evaluated only when every (term, project) request has
\* returned, and a search with a failed request is raised and returns no
\* result list, whatever the other requests had found
C26_EvaluatedAfterAllRequests ==
    /\ Evaluated => /\ DOMAIN responses = Requests
                    /\ \A r \in Requests : responses[r].state = "ok"
    /\ (\E r \in DOMAIN responses : responses[r].state = "failed")
          => /\ search.state = "raised"
             /\ search.error = "HTTPError"
             /\ search.value = << >>
             /\ output = NoOutput

\* a request failed after another one had found something
C26_Witness ==
    /\ search.state = "raised"
    /\ \E r \in DOMAIN responses : responses[r].state = "failed"
    /\ \E r \in DOMAIN responses : responses[r].state = "ok" /\ responses[r].hits # << >>

\* every (project, payload) some request of the search returned
Found ==
    UNION {{[project |-> r[2], hit |-> responses[r].hits[k]] :
               k \in 1..Len(responses[r].hits)} : r \in DOMAIN responses}

\* the identities found for one term
FoundFor(q) ==
    {ResultIdentifier(f.project, f.hit) :
        f \in UNION {{[project |-> r[2], hit |-> responses[r].hits[k]] :
                        k \in 1..Len(responses[r].hits)} :
                     r \in {x \in DOMAIN responses : x[1] = q}}}

\* the matching set of the evaluated tree
MatchingSet == evaluate(expression, [q \in QuerySet(all_queries) |-> FoundFor(q)]).value

\* every (project, payload) of the returned list
Listed ==
    UNION {{[project |-> search.value[k].project, hit |-> search.value[k].list[j]] :
               j \in 1..Len(search.value[k].list)} : k \in 1..Len(search.value)}

ExcludedGroupIds ==
    {g.id : g \in {x \in {Group(n, n) : n \in {"g1", "g2"}}
                          \cup {ServerGroups[k] : k \in 1..Len(ServerGroups)}
                          \cup {SubGroup} :
                      \E k \in 1..Len(scope_cmd.exclude_groups) :
                         x.id = scope_cmd.exclude_groups[k]
                         \/ x.name = scope_cmd.exclude_groups[k]}}

\* C28: no request, for its projects or for its descendant groups, is sent
\* for an excluded group
C28_NoRequestForExcludedGroup ==
    \A r \in requested :
        r[1] \in {"projects", "descendant_groups"} => r[2] \notin ExcludedGroupIds

\* group g2 was given and excluded, and the projects of g1 were requested
C28_Witness ==
    /\ scope_cmd.groups = <<"g1", "g2">>
    /\ scope_cmd.exclude_groups = <<"g2">>
    /\ <<"projects", "g1">> \in requested
    /\ rstate = "done"

\* this step ran one loop iteration on flag (with a value), without error,
\* and the argument just before it, if any, was not -not or !
ReadsNotAfterNot(flags) ==
    /\ tstate = "running"
    /\ tstate' = "running"
    /\ Len(args') = Len(args) + 1
    /\ Len(LastOf(args')) = 2
    /\ LastOf(args')[1] \in flags
    /\ (Len(args) > 0 => LastOf(args) \notin NotArgs)

C29_Step(flags, incl, excl) ==
    /\ ReadsNotAfterNot(flags)
          => /\ result'[incl] = result[incl] \o CommaSplit(LastOf(args')[2])
             /\ result'[excl] = result[excl]
             /\ result'.tokens = result.tokens
    /\ result'[excl] # result[excl] => ReadsAfterNot(flags)

C29_Example ==
    \A n \in NotArgs :
        (tstate = "done"
         /\ args = << n, <<"--debug">>, <<"-g", "x">>, <<"-q", "x">> >>)
            => /\ result.groups = <<"x">>
               /\ result.exclude_groups = << >>
               /\ result.tokens = <<Token("NOT", None), Q("x"), EOF>>

\* C29: -g or -p excludes only when it is the argument right after a NOT;
\* with any other argument in between (--debug, a filter with its value, a
\* query) its value goes to groups / projects and the tokens, the NOT
\* included, stay as they are
C29_ExclusionOnlyRightAfterNot ==
    [][/\ C29_Step({"-g", "--groups"}, "groups", "exclude_groups")
       /\ C29_Step({"-p", "--projects"}, "projects", "exclude_projects")
       /\ C29_Example']_vars

C29_Witness ==
    /\ tstate = "done"
    /\ args = << <<"!">>, <<"--debug">>, <<"-g", "x">>, <<"-q", "x">> >>
    /\ result.groups = <<"x">>
    /\ NotCount(result.tokens) = 1

\* how many of the requests sent are for term q in project p
TimesSent(q, p) == Cardinality({i \in 1..Len(sent) : sent[i] = <<q, p>>})

\* the terms that occur in a tree
RECURSIVE TermsOf(_)
TermsOf(node) ==
    CASE node.type = "Query" -> {node.query}
      [] node.type = "Not" -> TermsOf(node.child)
      [] node.type \in {"And", "Or"} -> TermsOf(node.left) \cup TermsOf(node.right)
      [] OTHER -> {}

\* C30: once a search has started, one request has been sent for each term
\* of the expression and each project, none for anything else, and none is
\* sent again after a failure
C30_OneRequestPerTermAndProject ==
    search.state # "idle" =>
        /\ \A q \in TermsOf(expression), j \in 1..Len(projects) :
              TimesSent(q, projects[j]) = 1
        /\ Len(sent) = Cardinality(TermsOf(expression)) * Len(projects)

\* a term occurs twice in the expression, and one of its requests failed
C30_Witness ==
    /\ expression.type \in {"And", "Or"}
    /\ expression.left = expression.right
    /\ search.state = "raised"
    /\ \E r \in DOMAIN responses : responses[r].state = "failed"
    /\ Len(sent) = Len(projects)

(***************************************************************************)
(* Properties of the per-term mapping (MapSpec)                            *)
(***************************************************************************)
\* what the requests of the term returned, project after project, as
\* (project, payload) pairs in the order the mapping loop reads them
RawOf(p) ==
    [k \in 1..Len(raw_results[<<"a", p>>].hits) |->
        [project |-> p, payload |-> raw_results[<<"a", p>>].hits[k]]]

RECURSIVE RawFrom(_)
RawFrom(p) == IF p > MaxProjects THEN << >> ELSE RawOf(p) \o RawFrom(p + 1)

IdentityOf(raw) ==
    IF mapped_scope = "blobs" THEN ResultIdentifier(raw.project, raw.payload)
    ELSE from_result(raw.project, raw.payload, mapped_scope)

\* the first payload read for an identity
FirstSeen(rid) ==
    LET raw == RawFrom(1)
        first == CHOOSE k \in 1..Len(raw) :
                    /\ IdentityOf(raw[k]) = rid
                    /\ \A j \in 1..(k - 1) : IdentityOf(raw[j]) # rid
    IN  raw[first].payload

\* the payload a mapping entry holds first: the head of a blob entry's
\* list, the payload of a scope entry
FirstKept(entry) ==
    IF mapped_scope = "blobs" THEN Head(entry.list) ELSE entry.result

\* C31: in the mapping of a term, every identity holds the first payload
\* read for it; later payloads for the identity do not replace it
C31_KeepsFirstPayload ==
    term_mapping.state = "built" =>
        \A k \in 1..Len(term_mapping.value) :
            FirstKept(term_mapping.value[k]) = FirstSeen(term_mapping.value[k].rid)

(***************************************************************************)
(* Properties of scope resolution followed by the searches (ResolveSpec)   *)
(***************************************************************************)
SearchRequests == {r \in requested : r[1] = "search"}

\* C32: once a request of scope resolution has failed (the listing of a
\* named group or user, the fetch of a named or an excluded project), the
\* run has ended in an error and no search request is ever sent
C32_ResolutionErrorAborts ==
    request_error # None => (rstate = "raised" /\ SearchRequests = {})

\* the lookup of the excluded project failed after projects had been
\* resolved
C32_Witness ==
    /\ request_error # None
    /\ request_error[1] = "project"
    /\ scope_cmd.projects = << >>
    /\ resolved # << >>
    /\ rstate = "raised"

(***************************************************************************)
(* Property of the exclusion pass of execute_search (SearchSpec)           *)
(***************************************************************************)
\* matches_exclusion on a result of the blobs scope (its filename is its
\* path) or of the files scope, with the lists the pass read
Excluded(r) ==
    IF scope = "blobs"
    THEN matches_exclusion(r.filename, r.filename, output.parsed.exclude_filenames,
                           output.parsed.exclude_extensions,
                           output.parsed.exclude_paths)
    ELSE matches_exclusion(r.name, r.path, output.parsed.exclude_filenames,
                           output.parsed.exclude_extensions,
                           output.parsed.exclude_paths)

NotExcluded(list) == SelectSeq(list, LAMBDA r : ~Excluded(r))

\* C33: once the exclusion pass of the blobs or files scope is over, the
\* output holds, project by project and in the original order, exactly the
\* results that matches_exclusion does not match, and no project without
\* a result
C33_ExclusionPassFilters ==
    (scope \in {"blobs", "files"} /\ output.state # "none") =>
        /\ output.state = "printed"
        /\ output.value =
              SelectSeq([k \in 1..Len(search.value) |->
                            [project |-> search.value[k].project,
                             list |-> NotExcluded(search.value[k].list)]],
                        LAMBDA e : e.list # << >>)

(***************************************************************************)
(* Property of the project exclusion of resolve_projects (ResolveSpec)     *)
(***************************************************************************)
\* where a project stands in a list that holds it
PositionIn(list, p) == CHOOSE k \in 1..Len(list) : list[k] = p

\* C34: the exclusion step of resolve_projects removes the projects whose
\* id is the id of an excluded project, from whichever source they came,
\* removes nothing else and keeps the others in their order
C34_ExcludedProjectsRemoved ==
    [][(rstate = "exclude" /\ rstate' = "done") =>
          /\ Elements(resolved') = Elements(resolved) \ ExcludedIds
          /\ \A i, j \in 1..Len(resolved') :
                i < j => PositionIn(resolved, resolved'[i])
                            < PositionIn(resolved, resolved'[j])]_vars

\* project 1 came from a listing and is excluded; two projects are left
C34_Witness ==
    /\ rstate = "done"
    /\ scope_cmd.exclude_projects = <<"1">>
    /\ \E k \in 1..Len(fetched) : 1 \in Elements(fetched[k])
    /\ Len(resolved) = 2
    /\ 1 \notin Elements(resolved)

(***************************************************************************)
(* Pooled and per-project evaluation (BlobSpec)                            *)
(***************************************************************************)
\* the identities of project p among those found for term q
FoundInProject(q, p) == {rid \in FoundFor(q) : rid[1] = p}

\* the evaluation of the tree over the identity sets of project p alone,
\* with the universe built from these sets
EvaluatedFor(p) ==
    LET own == [q \in QuerySet(all_queries) |-> FoundInProject(q, p)]
    IN  evaluate(set_universe(expression, universe_of(own)), own)

\* C35: for every project, the matching identities of the pooled
\* evaluation that belong to the project are those of the evaluation over
\* the project's own identity sets
C35_PooledEqualsPerProject ==
    (search.state = "returned" /\ all_queries # << >>) =>
        \A j \in 1..Len(projects) :
            /\ EvaluatedFor(projects[j]).state = "returned"
            /\ EvaluatedFor(projects[j]).value
                  = {rid \in MatchingSet : rid[1] = projects[j]}

(***************************************************************************)
(* Frame of the universe pass (EvalSpec)                                   *)
(***************************************************************************)
\* a tree without the universes of its Not nodes
RECURSIVE Skeleton(_)
Skeleton(node) ==
    CASE node.type = "Query" -> <<"Query", node.query>>
      [] node.type = "Not" -> <<"Not", Skeleton(node.child)>>
      [] node.type \in {"And", "Or"} ->
            <<node.type, Skeleton(node.left), Skeleton(node.right)>>

\* C36: the universe pass leaves the shape, the node kinds and the terms of
\* the tree as they were, gives every Not node, nested ones included, one
\* and the same universe, and leaves a tree without Not nodes unchanged
C36_OnlyUniversesChange ==
    [][(~assigned /\ assigned') =>
          /\ Skeleton(expr') = Skeleton(expr)
          /\ \E universe \in SUBSET Ids : Universes(expr') \subseteq {universe}
          /\ HasNot(expr) => Universes(expr') # {}
          /\ ~HasNot(expr) => expr' = expr]_vars

\* the pass has put a universe on both Not nodes of NOT NOT a
C36_Witness ==
    /\ assigned
    /\ Skeleton(expr) = <<"Not", <<"Not", <<"Query", "a">>>>>>
    /\ Universes(expr) = {Ids}

(***************************************************************************)
(* Property of the completion order (GatherSpec)                           *)
(***************************************************************************)
\* C37: whatever the order in which the requests of the terms and projects
\* completed, the search returns what the server's answers alone determine:
\* the same projects, in the same order, with the same payload lists
C37_ResultIndependentOfOrder ==
    search.state \in {"returned", "raised"} =>
        search = assemble(expression, all_queries, projects,
                          [r \in Requests |-> Responded(answers[r])])

\* the requests of b completed before those of a, the second project's
\* before the first's, and both projects are in the result
C37_Witness ==
    /\ search.state = "returned"
    /\ Len(arrived) = 4
    /\ arrived[1] = <<"b", projects[2]>>
    /\ arrived[4] = <<"a", projects[1]>>
    /\ Len(search.value) = 2

(***************************************************************************)
(* Progress of the requests (FairClientSpec)                               *)
(***************************************************************************)
\* the request of task t ended in this step, with a response or an error
LeftRequest(t) == tasks[t].state = "in_flight" /\ tasks'[t].state # "in_flight"

\* the permit went back: to the counter, or to the first waiter
PermitReleased ==
    \/ sem_value' = sem_value + 1 /\ waiters = << >>
    \/ /\ waiters # << >>
       /\ sem_value' = sem_value
       /\ waiters' = Tail(waiters)
       /\ tasks'[Head(waiters)].state = "granted"

AllTasksOver == \A t \in Tasks : tasks[t].state \in {"finished", "failed"}

\* a queued task leaves the queue only with a permit, and a task holding
\* a permit goes nowhere but into its request
QueuedOnlyAcquires(t) ==
    /\ tasks[t].state = "waiting" => tasks'[t].state \in {"waiting", "granted"}
    /\ tasks[t].state = "granted" => tasks'[t].state \in {"granted", "in_flight"}

\* C38: with a ceiling of at least 1 and every request answered, a request
\* that ends gives its permit back whether it succeeded or raised, every
\* queued request acquires a permit (it does not stay queued or woken for
\* ever, and the only way on is into its request), and all tasks come to an
\* end.  max_requests never changes, so "always eventually (ceiling 0 or
\* P)" says that P is reached from every state of a run with a ceiling >= 1.
C38_PermitsComeBackAndAllEnds ==
    /\ [][\A t \in Tasks : (max_requests >= 1 /\ LeftRequest(t)) => PermitReleased]_vars
    /\ [][\A t \in Tasks : QueuedOnlyAcquires(t)]_vars
    /\ \A t \in Tasks :
          []<>(max_requests = 0 \/ tasks[t].state \notin {"waiting", "granted"})
    /\ []<>(max_requests = 0 \/ AllTasksOver)

\* every task ended, one of them after queueing and one with an error
C38_Witness ==
    /\ max_requests = 1
    /\ AllTasksOver
    /\ \E t \in Tasks : tasks[t].state = "failed"
    /\ \E t \in Tasks : tasks[t].state = "finished" /\ tasks[t].page = MaxPages

(***************************************************************************)
(* The matching set and the universe (GatherSpec)                          *)
(***************************************************************************)
\* every identity some term of the search matched
MatchedByATerm == UNION {FoundFor(q) : q \in QuerySet(all_queries)}

\* C39: whatever the expression and the results of its terms, the matching
\* set of a returned search lies within the union of the terms' identity
\* sets, and so does the identity of every payload in the output
C39_MatchingWithinUniverse ==
    (search.state = "returned" /\ all_queries # << >>) =>
        /\ MatchingSet \subseteq MatchedByATerm
        /\ \A f \in Listed : ResultIdentifier(f.project, f.hit) \in MatchedByATerm

\* a tree with a Not node matched a part of what its terms found
C39_Witness ==
    /\ search.state = "returned"
    /\ HasNot(expression)
    /\ MatchingSet # {}
    /\ MatchingSet # MatchedByATerm
    /\ Listed # {}

(***************************************************************************)
(* The tree and the token stream (ParseSpec)                               *)
(***************************************************************************)
\* the terms of the Query leaves, left to right
RECURSIVE QueryLeaves(_)
QueryLeaves(node) ==
    CASE node.type = "Query" -> <<node.query>>
      [] node.type = "Not" -> QueryLeaves(node.child)
      [] OTHER -> QueryLeaves(node.left) \o QueryLeaves(node.right)

RECURSIVE NotNodes(_)
NotNodes(node) ==
    CASE node.type = "Query" -> 0
      [] node.type = "Not" -> 1 + NotNodes(node.child)
      [] OTHER -> NotNodes(node.left) + NotNodes(node.right)

\* the values of the QUERY tokens, in stream order
QueryValues(toks) ==
    LET queries == SelectSeq(toks, LAMBDA t : t.type = "QUERY")
    IN  [k \in 1..Len(queries) |-> queries[k].value]

\* a call of a grammar rule at position pos stops at pos or further on
NeverBack(toks, pos) ==
    /\ parse_expr(toks, pos).pos >= pos
    /\ parse_term(toks, pos).pos >= pos
    /\ parse_factor(toks, pos).pos >= pos
    /\ parse_primary(toks, pos).pos >= pos

\* C40: on a successful parse the Query leaves, left to right, are the
\* values of the QUERY tokens in stream order, there are as many Not nodes
\* as NOT tokens, no rule called at a position of the stream ends before
\* it, and the parser stops on the EOF token
C40_TreeMirrorsTokens ==
    parsed.state = "tree" =>
        /\ QueryLeaves(parsed.node) = QueryValues(tokens)
        /\ NotNodes(parsed.node) = NotCount(tokens)
        /\ \A pos \in 0..parsed.pos : NeverBack(tokens, pos)
        /\ parsed.pos = Len(tokens) - 1
        /\ tokens[parsed.pos + 1] = EOF

\* NOT ( b OR a ) a: two NOT-free leaves in a group under one Not node
C40_Witness ==
    /\ parsed.state = "tree"
    /\ tokens = <<NOT, LPAREN, Q("b"), OR, Q("a"), RPAREN, EOF>>
    /\ QueryLeaves(parsed.node) = <<"b", "a">>
    /\ NotNodes(parsed.node) = 1

====
